---------------------------- MODULE Spec2Model ----------------------------
(***************************************************************************)
(* Model of the macro-mapping engine of massive (src/massive/src/massive/  *)
(* macros.py): load_macro_map, resolve_path, _SafeEval, _parse_curve,      *)
(* _map_value, _coerce_float and map_to_macros with its helper place.      *)
(*                                                                         *)
(* Python values are tagged records.  Text is a sequence of one-character  *)
(* strings.  A float is an exact rational or one of +inf, -inf, nan; the   *)
(* inputs are dyadic rationals of small size, on which IEEE double         *)
(* arithmetic is exact, so the rational result is the float result.        *)
(***************************************************************************)
EXTENDS Integers, Sequences, FiniteSets, TLC

(***************************************************************************)
(* Floats                                                                  *)
(***************************************************************************)
RECURSIVE GCD(_, _)
GCD(a, b) == IF b = 0 THEN a ELSE GCD(b, a % b)

Abs(n) == IF n < 0 THEN -n ELSE n

\* The float n/d, in lowest terms with a positive denominator.
Fin(n, d) ==
    LET s == IF d < 0 THEN -1 ELSE 1
        g == GCD(Abs(n), Abs(d))
    IN  [k |-> "fin", n |-> (s * n) \div g, d |-> (s * d) \div g]

PInf == [k |-> "inf", n |-> 1, d |-> 0]
NInf == [k |-> "inf", n |-> -1, d |-> 0]
NaN == [k |-> "nan", n |-> 0, d |-> 0]

IsFin(x) == x.k = "fin"
IsInf(x) == x.k = "inf"
IsNaN(x) == x.k = "nan"
Sign(x) == IF x.n > 0 THEN 1 ELSE IF x.n < 0 THEN -1 ELSE 0
Inf(s) == IF s > 0 THEN PInf ELSE NInf

\* a == b, a < b, a > b on floats: every comparison with nan is false.
FEq(a, b) == ~IsNaN(a) /\ ~IsNaN(b) /\ a.k = b.k /\ a.n = b.n /\ a.d = b.d
\* n1/d1 < n2/d2 for d1, d2 > 0, by integer parts and then the reciprocals of
\* the fractional parts, so that no product leaves the machine integers.
RECURSIVE RatLt(_, _, _, _)
RatLt(n1, d1, n2, d2) ==
    LET q1 == n1 \div d1
        q2 == n2 \div d2
        r1 == n1 - q1 * d1
        r2 == n2 - q2 * d2
    IN  IF q1 # q2 THEN q1 < q2
        ELSE IF r2 = 0 THEN FALSE
        ELSE IF r1 = 0 THEN TRUE
        ELSE RatLt(d2, r2, d1, r1)

FLt(a, b) ==
    /\ ~IsNaN(a) /\ ~IsNaN(b)
    /\ IF IsInf(a) THEN a.n < 0 /\ ~(IsInf(b) /\ b.n < 0)
       ELSE IF IsInf(b) THEN b.n > 0
       ELSE RatLt(a.n, a.d, b.n, b.d)
FGt(a, b) == FLt(b, a)

FNeg(a) == IF IsFin(a) THEN Fin(-a.n, a.d) ELSE IF IsInf(a) THEN Inf(-a.n) ELSE NaN

FAdd(a, b) ==
    IF IsNaN(a) \/ IsNaN(b) THEN NaN
    ELSE IF IsInf(a) /\ IsInf(b) THEN (IF a.n = b.n THEN a ELSE NaN)
    ELSE IF IsInf(a) THEN a
    ELSE IF IsInf(b) THEN b
    ELSE Fin(a.n * b.d + b.n * a.d, a.d * b.d)

FSub(a, b) == FAdd(a, FNeg(b))

FMul(a, b) ==
    IF IsNaN(a) \/ IsNaN(b) THEN NaN
    ELSE IF IsInf(a) \/ IsInf(b)
         THEN (IF Sign(a) * Sign(b) = 0 THEN NaN ELSE Inf(Sign(a) * Sign(b)))
    ELSE Fin(a.n * b.n, a.d * b.d)

\* a / b for b # 0 (a zero divisor raises ZeroDivisionError: see BinOp).
FDiv(a, b) ==
    IF IsNaN(a) \/ IsNaN(b) THEN NaN
    ELSE IF IsInf(a) THEN (IF IsInf(b) THEN NaN ELSE Inf(Sign(a) * Sign(b)))
    ELSE IF IsInf(b) THEN Fin(0, 1)
    ELSE Fin(a.n * b.d, a.d * b.n)

\* Python's builtin min(a, b) and max(a, b): the first argument is kept
\* unless the second compares strictly smaller (larger).
PyMin(a, b) == IF FLt(b, a) THEN b ELSE a
PyMax(a, b) == IF FGt(b, a) THEN b ELSE a

Zero == Fin(0, 1)
One == Fin(1, 1)

(***************************************************************************)
(* Text: a str is a sequence of one-character strings                      *)
(***************************************************************************)
DigitOf ==
    ("0" :> 0) @@ ("1" :> 1) @@ ("2" :> 2) @@ ("3" :> 3) @@ ("4" :> 4) @@
    ("5" :> 5) @@ ("6" :> 6) @@ ("7" :> 7) @@ ("8" :> 8) @@ ("9" :> 9)

IsDigitCh(c) == c \in DOMAIN DigitOf

AllDigits(s) == \A i \in 1..Len(s) : IsDigitCh(s[i])

\* str.isdigit(): non-empty and all digits.
IsDigit(s) == s # <<>> /\ AllDigits(s)

RECURSIVE DecVal(_)
DecVal(s) == IF s = <<>> THEN 0
             ELSE DecVal(SubSeq(s, 1, Len(s) - 1)) * 10 + DigitOf[s[Len(s)]]

RECURSIVE Pow10(_)
Pow10(k) == IF k = 0 THEN 1 ELSE 10 * Pow10(k - 1)

\* s.index(c), 1-based; 0 when c does not occur in s.
IndexOf(s, c) ==
    IF \E i \in 1..Len(s) : s[i] = c
    THEN CHOOSE i \in 1..Len(s) : s[i] = c /\ \A j \in 1..(i - 1) : s[j] # c
    ELSE 0

\* s.split(c)
RECURSIVE SplitOn(_, _)
SplitAt(s, c, i) ==
    IF i = 0 THEN <<s>>
    ELSE <<SubSeq(s, 1, i - 1)>> \o SplitOn(SubSeq(s, i + 1, Len(s)), c)
SplitOn(s, c) == SplitAt(s, c, IndexOf(s, c))

\* s.strip()
RECURSIVE Strip(_)
Strip(s) ==
    IF s = <<>> THEN s
    ELSE IF s[1] = " " THEN Strip(Tail(s))
    ELSE IF s[Len(s)] = " " THEN Strip(SubSeq(s, 1, Len(s) - 1))
    ELSE s

Raised(exc) == [ok |-> FALSE, exc |-> exc]
IntOk(n) == [ok |-> TRUE, n |-> n]
FloatOk(x) == [ok |-> TRUE, x |-> x]

HasSign(s) == s # <<>> /\ s[1] \in {"+", "-"}
IsNegative(s) == s # <<>> /\ s[1] = "-"
Unsigned(s) == IF HasSign(s) THEN Tail(s) ELSE s

\* int() of blank-free text: optional sign, decimal digits.
ParseIntBody(neg, body) ==
    IF IsDigit(body) THEN IntOk(IF neg THEN -DecVal(body) ELSE DecVal(body))
    ELSE Raised("ValueError")
ParseIntStripped(s) == ParseIntBody(IsNegative(s), Unsigned(s))
\* int(s) on text
ParseInt(s) == ParseIntStripped(Strip(s))

\* The float with integer digits ip and fraction digits fp.
Decimal(ip, fp) == Fin(DecVal(ip) * Pow10(Len(fp)) + DecVal(fp), Pow10(Len(fp)))
Signed(neg, x) == IF neg THEN FNeg(x) ELSE x

ParseDecimal(neg, ip, fp) ==
    IF AllDigits(ip) /\ AllDigits(fp) /\ Len(ip) + Len(fp) > 0
    THEN FloatOk(Signed(neg, Decimal(ip, fp)))
    ELSE Raised("ValueError")

ParseFloatAt(neg, body, dot) ==
    IF dot = 0 THEN ParseDecimal(neg, body, <<>>)
    ELSE ParseDecimal(neg, SubSeq(body, 1, dot - 1), SubSeq(body, dot + 1, Len(body)))

\* float() of blank-free text: optional sign, then inf, infinity, nan, or
\* decimal digits with at most one point and at least one digit.
ParseFloatBody(neg, body) ==
    IF body = <<"i", "n", "f">> \/ body = <<"i", "n", "f", "i", "n", "i", "t", "y">>
    THEN FloatOk(Signed(neg, PInf))
    ELSE IF body = <<"n", "a", "n">> THEN FloatOk(NaN)
    ELSE ParseFloatAt(neg, body, IndexOf(body, "."))
ParseFloatStripped(s) == ParseFloatBody(IsNegative(s), Unsigned(s))
\* float(s) on text
ParseFloat(s) == ParseFloatStripped(Strip(s))

(***************************************************************************)
(* Python values                                                           *)
(***************************************************************************)
PyNone == [t |-> "none"]
PyBool(b) == [t |-> "bool", b |-> b]
PyInt(n) == [t |-> "int", n |-> n]
\* An int too large for a double (float() of it raises OverflowError).
PyHugeInt == [t |-> "hugeint"]
PyFloat(x) == [t |-> "float", x |-> x]
PyStr(s) == [t |-> "str", s |-> s]
PyList(items) == [t |-> "list", items |-> items]
\* m is a function from keys to values; EmptyMap is the empty one.
PyDict(m) == [t |-> "dict", m |-> m]
EmptyMap == <<>>

\* isinstance(v, int): bool is a subclass of int.
IsInstanceInt(v) == v.t \in {"int", "hugeint", "bool"}
IsInstanceDict(v) == v.t = "dict"
IsInstanceList(v) == v.t = "list"

\* The int value of an int or bool that fits the model's integers.
IntOf(v) == IF v.t = "bool" THEN (IF v.b THEN 1 ELSE 0) ELSE v.n

\* bool(v)
Truthy(v) ==
    CASE v.t = "none" -> FALSE
      [] v.t = "bool" -> v.b
      [] v.t = "int" -> v.n # 0
      [] v.t = "hugeint" -> TRUE
      [] v.t = "float" -> ~FEq(v.x, Zero)
      [] v.t = "str" -> v.s # <<>>
      [] v.t = "list" -> v.items # <<>>
      [] v.t = "dict" -> DOMAIN v.m # {}

\* float(v)
ToFloat(v) ==
    CASE v.t = "bool" -> FloatOk(IF v.b THEN One ELSE Zero)
      [] v.t = "int" -> FloatOk(Fin(v.n, 1))
      [] v.t = "hugeint" -> Raised("OverflowError")
      [] v.t = "float" -> FloatOk(v.x)
      [] v.t = "str" -> ParseFloat(v.s)
      [] OTHER -> Raised("TypeError")

\* d.get(key), with None for an absent key.
DictGet(d, key) == IF key \in DOMAIN d.m THEN d.m[key] ELSE PyNone
\* d.get(key, dflt)
DictGetOr(d, key, dflt) == IF key \in DOMAIN d.m THEN d.m[key] ELSE dflt

(***************************************************************************)
(* resolve_path                                                            *)
(***************************************************************************)
ValOk(v) == [ok |-> TRUE, v |-> v]

\* cur[key] for a str key.
SubscriptStr(cur, key) ==
    IF cur.t = "dict"
    THEN (IF key \in DOMAIN cur.m THEN ValOk(cur.m[key]) ELSE Raised("KeyError"))
    ELSE Raised("TypeError")

\* seq[i] of a Python sequence of length n: a negative i counts from the end.
WrapIndex(i, n) == IF i < 0 THEN i + n ELSE i
InRange(i, n) == 0 <= WrapIndex(i, n) /\ WrapIndex(i, n) < n

\* cur[i] for an int i: lists and strs index from either end; the keys of a
\* patch mapping are strs, so an int is never one of them.
SubscriptInt(cur, i) ==
    CASE cur.t = "list" ->
           IF InRange(i, Len(cur.items))
           THEN ValOk(cur.items[WrapIndex(i, Len(cur.items)) + 1])
           ELSE Raised("IndexError")
      [] cur.t = "str" ->
           IF InRange(i, Len(cur.s))
           THEN ValOk(PyStr(<<cur.s[WrapIndex(i, Len(cur.s)) + 1]>>))
           ELSE Raised("IndexError")
      [] cur.t = "dict" -> Raised("KeyError")
      [] OTHER -> Raised("TypeError")

\* The condition of the while loop on its first test.
IsBracketed(part) == IndexOf(part, "[") # 0 /\ part[Len(part)] = "]"

\* cur = cur[idx], with idx = int(idx_str).
IndexStep(cur, idx) == IF idx.ok THEN SubscriptInt(cur, idx.n) ELSE idx

\* Lines 117-120, after `cur = cur[key]` gave c1.
BracketIndex(c1, idx_str) ==
    IF ~c1.ok THEN c1
    ELSE IF idx_str = <<>> THEN Raised("ReturnDefault")
    ELSE IndexStep(c1.v, ParseInt(idx_str))

\* Lines 113-115.
BracketKey(cur, key) == IF key # <<>> THEN SubscriptStr(cur, key) ELSE ValOk(cur)

\* The body of the while loop for a part whose first "[" is at lb.  It runs
\* once: it ends with part = "", which also skips the `if part:` after it.
BracketStep(cur, part, lb) ==
    BracketIndex(BracketKey(cur, SubSeq(part, 1, lb - 1)),
                 SubSeq(part, lb + 1, Len(part) - 1))

\* One pass of the for loop.
ResolvePart(cur, part) ==
    IF IsBracketed(part) THEN BracketStep(cur, part, IndexOf(part, "["))
    ELSE IF part = <<>> THEN ValOk(cur)
    ELSE IF IsInstanceList(cur) /\ IsDigit(part) THEN SubscriptInt(cur, DecVal(part))
    ELSE SubscriptStr(cur, part)

RECURSIVE ResolveFrom(_, _)
ResolveNext(r, rest) == IF r.ok THEN ResolveFrom(r.v, rest) ELSE r
ResolveFrom(cur, parts) ==
    IF parts = <<>> THEN ValOk(cur)
    ELSE ResolveNext(ResolvePart(cur, Head(parts)), Tail(parts))

FloatOrRaise(f) == IF f.ok THEN ValOk(PyFloat(f.x)) ELSE f
FloatOrDefault(f, default) == IF f.ok THEN ValOk(PyFloat(f.x)) ELSE ValOk(default)

\* The coercion of the terminal value; float() of an int that does not fit a
\* double raises OverflowError, which the except clause does not name.
CoerceTerminal(cur, default) ==
    IF IsInstanceInt(cur) \/ cur.t = "float" THEN FloatOrRaise(ToFloat(cur))
    ELSE IF cur.t = "str" THEN FloatOrDefault(ParseFloat(Strip(cur.s)), default)
    ELSE ValOk(default)

ResolveEnd(r, default) == IF r.ok THEN CoerceTerminal(r.v, default) ELSE ValOk(default)

\* resolve_path(root, dotted, default): ValOk(v) when it returns v, Raised
\* when an exception leaves it.
resolve_path(root, dotted, default) ==
    ResolveEnd(ResolveFrom(root, IF dotted # <<>> THEN SplitOn(dotted, ".") ELSE <<>>),
               default)

(***************************************************************************)
(* Mapping utilities: _parse_curve, _map_value, _coerce_float              *)
(***************************************************************************)
LowerOf ==
    ("P" :> "p") @@ ("O" :> "o") @@ ("W" :> "w") @@ ("L" :> "l") @@ ("E" :> "e")

\* s.lower()
Lower(s) == [i \in 1..Len(s) |-> IF s[i] \in DOMAIN LowerOf THEN LowerOf[s[i]] ELSE s[i]]

StartsWith(s, p) == Len(s) >= Len(p) /\ SubSeq(s, 1, Len(p)) = p

Curve(kind, gamma) == [kind |-> kind, gamma |-> gamma]

\* Lines 225-229: gamma = float(...), 1.0 when that raises.
GammaOf(g) == Curve("pow", IF g.ok THEN g.x ELSE One)

\* Lines 224-232 on c = str(curve).strip().lower().
ParseCurveText(c) ==
    IF StartsWith(c, <<"p", "o", "w", ":">>) THEN GammaOf(ParseFloat(SubSeq(c, 5, Len(c))))
    ELSE IF c = <<"p", "o", "w">> \/ c = <<"p", "o", "w", "e", "r">> THEN Curve("pow", One)
    ELSE Curve("linear", One)

\* _parse_curve(curve).  str() of a truthy value that is not a str (a number,
\* True, a list, a mapping) never starts with "pow", so it is "linear".
parse_curve(curve) ==
    IF ~Truthy(curve) \/ curve.t # "str" THEN Curve("linear", One)
    ELSE ParseCurveText(Lower(Strip(curve.s)))

\* The floor 1e-9 of the exponent.
GammaFloor == Fin(1, 1000000000)

\* A float within 2^-20 of 1 on the side of b, standing for b ** 1e-9 with
\* 0 < b < 1 or 1 < b < inf (the true distance from 1 is below 1e-7 for every
\* b of the model, so every sum rounded below rounds alike).
NearOne(b) == IF FLt(b, One) THEN Fin(1048575, 1048576) ELSE Fin(1048577, 1048576)

RECURSIVE IntPow(_, _)
IntPow(b, e) == IF e = 0 THEN 1 ELSE b * IntPow(b, e - 1)

\* The largest r with r * r <= n, by bisection of lo..hi (lo * lo <= n < hi * hi).
RECURSIVE ISqrtIn(_, _, _)
ISqrtStep(n, lo, hi, mid) ==
    IF mid * mid <= n THEN ISqrtIn(n, mid, hi) ELSE ISqrtIn(n, lo, mid)
ISqrtIn(n, lo, hi) ==
    IF hi - lo <= 1 THEN lo ELSE ISqrtStep(n, lo, hi, (lo + hi) \div 2)
ISqrt(n) == ISqrtIn(n, 0, 46341)

IsSquare(n) == ISqrt(n) * ISqrt(n) = n

\* math.sqrt(b) for finite b >= 0: exact on a ratio of squares, else to
\* within 1/1024.
FSqrt(b) ==
    IF IsSquare(b.n) /\ IsSquare(b.d) THEN Fin(ISqrt(b.n), ISqrt(b.d))
    ELSE Fin(ISqrt((b.n * 1048576) \div b.d), 1024)

\* b ** g for b in [0, +inf] and g in (0, +inf], the operands _map_value
\* passes; g is an integer, a half or the floor (the curve specs of the model
\* name no other exponent).
FPowPos(b, g) ==
    CASE FEq(b, Zero) -> Zero
      [] FEq(b, One) -> One
      [] IsInf(g) -> IF FLt(b, One) THEN Zero ELSE PInf
      [] IsInf(b) -> PInf
      [] g.d = 1 -> Fin(IntPow(b.n, g.n), IntPow(b.d, g.n))
      [] g.d = 2 /\ g.n = 1 -> FSqrt(b)
      [] FEq(g, GammaFloor) -> NearOne(b)

\* round(y) of a finite float n/d with q = floor(n/d): to the nearest int, a
\* tie to the even one.
RoundFrom(n, d, q) ==
    IF 2 * (n - q * d) < d THEN q
    ELSE IF 2 * (n - q * d) > d THEN q + 1
    ELSE IF q % 2 = 0 THEN q ELSE q + 1
RoundHalfEven(y) == RoundFrom(y.n, y.d, y.n \div y.d)

\* PyRound with int(y) of a float y >= 0 in place of int(round(y)).
PyTrunc(y) ==
    IF IsNaN(y) THEN Raised("ValueError")
    ELSE IF IsInf(y) THEN Raised("OverflowError")
    ELSE IntOk(y.n \div y.d)

\* int(round(y)): round() raises on a float that is not finite.
PyRound(y) ==
    IF IsNaN(y) THEN Raised("ValueError")
    ELSE IF IsInf(y) THEN Raised("OverflowError")
    ELSE IntOk(RoundHalfEven(y))

\* Normalize with t = 1.0 for a degenerate range.
NormalizeOne(x, in_min, in_max) ==
    IF FEq(in_max, in_min) THEN One
    ELSE FDiv(FSub(x, in_min), FSub(in_max, in_min))

\* Lines 246-249.
Normalize(x, in_min, in_max) ==
    IF FEq(in_max, in_min) THEN Zero
    ELSE FDiv(FSub(x, in_min), FSub(in_max, in_min))

\* ClampT with the clamp applied whatever `clamp` says.
ClampAlways(t, clamp) == PyMax(Zero, PyMin(One, t))

\* Lines 250-251.
ClampT(t, clamp) == IF clamp THEN PyMax(Zero, PyMin(One, t)) ELSE t

\* Lines 253-256.
ApplyCurve(t, kg) ==
    IF kg.kind = "pow" THEN FPowPos(PyMax(Zero, t), PyMax(GammaFloor, kg.gamma)) ELSE t

\* InvertT with -t in place of 1.0 - t.
InvertNeg(t, invert) == IF invert THEN FNeg(t) ELSE t

\* Lines 259-260.
InvertT(t, invert) == IF invert THEN FSub(One, t) ELSE t

\* Lines 262-263.
ScaleOut(t, out_min, out_max) == PyRound(FAdd(out_min, FMul(t, FSub(out_max, out_min))))

\* _map_value: IntOk(n) when it returns n, Raised when round() raises.
map_value(x, in_min, in_max, out_min, out_max, curve, invert, clamp) ==
    ScaleOut(InvertT(ApplyCurve(ClampT(Normalize(x, in_min, in_max), clamp),
                                parse_curve(curve)),
                     invert),
             out_min, out_max)

FloatOr(f, default) == IF f.ok THEN f.x ELSE default

\* _coerce_float(v, default)
coerce_float(v, default) == IF v.t = "none" THEN default ELSE FloatOr(ToFloat(v), default)

(***************************************************************************)
(* _SafeEval.  An expression is the tree ast.parse builds from its text:   *)
(*   [op |-> "Constant", v |-> a Python value]                             *)
(*   [op |-> "Name", id |-> a name]                                        *)
(*   [op |-> "BinOp", o |-> operator, l |-> tree, r |-> tree]              *)
(*   [op |-> "UnaryOp", o |-> operator, e |-> tree]                        *)
(*   [op |-> "Call", f |-> callee name ("" when the callee is no Name),    *)
(*    args |-> trees, kw |-> whether keyword arguments are given]          *)
(*   [op |-> "Other", what |-> node class]  (Compare, Attribute, List ...) *)
(*   [op |-> "SyntaxError"]  (text that ast.parse rejects)                 *)
(***************************************************************************)
AllowedFuncs == {"min", "max", "abs", "sqrt"}

IsIntegral(x) == IsFin(x) /\ x.d = 1
FAbs(x) == IF Sign(x) < 0 THEN FNeg(x) ELSE x

\* left ** right on floats.  A negative base with a fractional exponent gives
\* a complex number, which the float() calls around it reject.
FPow(a, b) ==
    CASE FEq(b, Zero) -> FloatOk(One)
      [] FEq(a, One) -> FloatOk(One)
      [] IsNaN(a) \/ IsNaN(b) -> FloatOk(NaN)
      [] FEq(a, Zero) -> IF Sign(b) < 0 THEN Raised("ZeroDivisionError") ELSE FloatOk(Zero)
      [] IsInf(b) ->
           IF FEq(FAbs(a), One) THEN FloatOk(One)
           ELSE IF FLt(FAbs(a), One) = (b.n > 0) THEN FloatOk(Zero) ELSE FloatOk(PInf)
      [] IsInf(a) ->
           IF Sign(b) < 0 THEN FloatOk(Zero)
           ELSE IF a.n < 0 /\ IsIntegral(b) /\ b.n % 2 = 1 THEN FloatOk(NInf)
           ELSE FloatOk(PInf)
      [] IsIntegral(b) ->
           IF b.n > 0 THEN FloatOk(Fin(IntPow(a.n, b.n), IntPow(a.d, b.n)))
           ELSE FloatOk(Fin(IntPow(a.d, -b.n), IntPow(a.n, -b.n)))
      [] Sign(a) < 0 -> Raised("TypeError")
      [] b.d = 2 /\ b.n = 1 -> FloatOk(FSqrt(a))

\* left % right on floats: the result takes the sign of the divisor.
FMod(a, b) ==
    IF IsNaN(a) \/ IsNaN(b) \/ IsInf(a) THEN NaN
    ELSE IF IsInf(b) THEN (IF Sign(a) = 0 \/ Sign(a) = Sign(b) THEN a ELSE b)
    ELSE FSub(a, FMul(b, Fin((a.n * b.d) \div (a.d * b.n), 1)))

BinOp(o, l, r) ==
    CASE o = "Add" -> FloatOk(FAdd(l, r))
      [] o = "Sub" -> FloatOk(FSub(l, r))
      [] o = "Mult" -> FloatOk(FMul(l, r))
      [] o = "Div" -> IF FEq(r, Zero) THEN Raised("ZeroDivisionError") ELSE FloatOk(FDiv(l, r))
      [] o = "Pow" -> FPow(l, r)
      [] o = "Mod" -> IF FEq(r, Zero) THEN Raised("ZeroDivisionError") ELSE FloatOk(FMod(l, r))
      [] OTHER -> Raised("ValueError")

UnaryOp(o, x) ==
    CASE o = "UAdd" -> FloatOk(x)
      [] o = "USub" -> FloatOk(FNeg(x))
      [] OTHER -> Raised("ValueError")

\* min(*xs) and max(*xs) keep the first of the arguments that compare alike.
RECURSIVE FoldMin(_, _)
FoldMin(acc, xs) == IF xs = <<>> THEN acc ELSE FoldMin(PyMin(acc, Head(xs)), Tail(xs))
RECURSIVE FoldMax(_, _)
FoldMax(acc, xs) == IF xs = <<>> THEN acc ELSE FoldMax(PyMax(acc, Head(xs)), Tail(xs))

\* _ALLOWED_FUNCS[f](*xs)
CallFunc(f, xs) ==
    CASE f \in {"min", "max"} ->
           IF Len(xs) < 2 THEN Raised("TypeError")
           ELSE FloatOk(IF f = "min" THEN FoldMin(Head(xs), Tail(xs))
                        ELSE FoldMax(Head(xs), Tail(xs)))
      [] f = "abs" -> IF Len(xs) # 1 THEN Raised("TypeError") ELSE FloatOk(FAbs(xs[1]))
      [] f = "sqrt" ->
           IF Len(xs) # 1 THEN Raised("TypeError")
           ELSE IF Sign(xs[1]) < 0 THEN Raised("ValueError")
           ELSE IF IsFin(xs[1]) THEN FloatOk(FSqrt(xs[1]))
           ELSE FloatOk(xs[1])

\* The operator applied once both operands are visited, the left one first.
BinOpOn(o, l, r) == IF ~l.ok THEN l ELSE IF ~r.ok THEN r ELSE BinOp(o, l.x, r.x)
UnaryOpOn(o, e) == IF ~e.ok THEN e ELSE UnaryOp(o, e.x)
CallOn(f, a) == IF ~a.ok THEN a ELSE CallFunc(f, a.xs)
ConsArgs(h, t) ==
    IF ~h.ok THEN h ELSE IF ~t.ok THEN t ELSE [ok |-> TRUE, xs |-> <<h.x>> \o t.xs]

\* _SafeEval.visit(node): FloatOk(x) or Raised(exception).  Operands and
\* arguments are visited before the operator is looked at; the keywords of a
\* call are never looked at.
RECURSIVE Visit(_, _)
RECURSIVE VisitAll(_, _)
Visit(node, variables) ==
    CASE node.op = "BinOp" ->
           BinOpOn(node.o, Visit(node.l, variables), Visit(node.r, variables))
      [] node.op = "UnaryOp" -> UnaryOpOn(node.o, Visit(node.e, variables))
      [] node.op = "Constant" ->
           IF IsInstanceInt(node.v) \/ node.v.t = "float" THEN ToFloat(node.v)
           ELSE Raised("ValueError")
      [] node.op = "Name" ->
           IF node.id \in DOMAIN variables THEN FloatOk(variables[node.id])
           ELSE Raised("ValueError")
      [] node.op = "Call" ->
           IF node.f \notin AllowedFuncs THEN Raised("ValueError")
           ELSE CallOn(node.f, VisitAll(node.args, variables))
      [] OTHER -> Raised("ValueError")

VisitAll(nodes, variables) ==
    IF nodes = <<>> THEN [ok |-> TRUE, xs |-> <<>>]
    ELSE ConsArgs(Visit(Head(nodes), variables), VisitAll(Tail(nodes), variables))

\* _SafeEval.eval(expr, variables)
SafeEval(tree, variables) ==
    IF tree.op = "SyntaxError" THEN Raised("SyntaxError") ELSE Visit(tree, variables)

(***************************************************************************)
(* load_macro_map                                                          *)
(***************************************************************************)
\* A configuration file: whether it exists, whether open and yaml.safe_load
\* succeed on it, and the value safe_load returns (PyNone for an empty file).
CfgFile(exists, parses, top) == [exists |-> exists, parses |-> parses, top |-> top]

EmptyList == PyList(<<>>)
EmptyDict == PyDict(EmptyMap)

\* v or []
OrEmptyList(v) == IF Truthy(v) THEN v ELSE EmptyList
\* v or {}
OrEmptyDict(v) == IF Truthy(v) THEN v ELSE EmptyDict

\* MacrosOf without the isinstance check of line 86: a value that is not a
\* list is taken as a list of one element.
MacrosWrapped(macros) ==
    IF ~IsInstanceList(macros) THEN PyList(<<macros>>) ELSE macros

\* Lines 85-88: the raise is caught at line 89.
MacrosOf(macros) == IF ~IsInstanceList(macros) THEN EmptyList ELSE macros

\* Lines 83-88: the raise is caught at line 89.
MacrosIn(data) ==
    IF ~IsInstanceDict(data) THEN EmptyList
    ELSE MacrosOf(OrEmptyList(DictGet(data, "macros")))

\* load_macro_map(path): the list bound to "macros" in the dict it returns.
load_macro_map(f) ==
    IF ~f.exists THEN EmptyList
    ELSE IF ~f.parses THEN EmptyList
    ELSE MacrosIn(OrEmptyDict(f.top))

(***************************************************************************)
(* map_to_macros                                                           *)
(***************************************************************************)
NumSlots == 8
Slots == 0..(NumSlots - 1)
CCMax == 127

\* str(v) of a path given as a str, a small int or None.
ToText(v) ==
    CASE v.t = "str" -> v.s
      [] v.t = "int" /\ v.n \in 0..9 -> <<CHOOSE c \in DOMAIN DigitOf : DigitOf[c] = v.n>>
      [] v.t = "none" -> <<"N", "o", "n", "e">>

Coerced(r, default_val) == IF r.ok THEN FloatOk(coerce_float(r.v, default_val)) ELSE r

\* The float a resolve_path result is coerced to; Raised when resolve_path
\* raised (the call is outside every try).
ResolveCoerced(doc, path, default_val) ==
    Coerced(resolve_path(doc, ToText(path), PyFloat(default_val)), default_val)

BindVar(nm, r, rest) ==
    IF ~r.ok THEN r
    ELSE IF ~rest.ok THEN rest
    ELSE [ok |-> TRUE, m |-> (nm :> r.x) @@ rest.m]

\* var_map, or the exception raised while building it.
RECURSIVE VarMap(_, _, _, _)
VarMapFrom(nm, names, vs, doc, default_val) ==
    BindVar(nm, ResolveCoerced(doc, vs.m[nm], default_val),
            VarMap(names \ {nm}, vs, doc, default_val))
VarMap(names, vs, doc, default_val) ==
    IF names = {} THEN [ok |-> TRUE, m |-> EmptyMap]
    ELSE VarMapFrom(CHOOSE x \in names : TRUE, names, vs, doc, default_val)

\* EvalOr falling back to 0.0 instead of default_val.
EvalOrZero(ev, default_val) == FloatOk(IF ev.ok THEN ev.x ELSE Zero)

\* Lines 329-333: the value of the expression, default_val when it raises.
EvalOr(ev, default_val) == FloatOk(IF ev.ok THEN ev.x ELSE default_val)
EvalExpr(expr, vm, default_val) ==
    IF ~vm.ok THEN vm ELSE EvalOr(SafeEval(expr, vm.m), default_val)

\* SourceWith with the `path` key looked at first.
SourcePathFirst(source, doc, default_val) ==
    IF "path" \in DOMAIN source.m
    THEN ResolveCoerced(doc, source.m["path"], default_val)
    ELSE IF "constant" \in DOMAIN source.m
    THEN FloatOk(coerce_float(source.m["constant"], default_val))
    ELSE IF /\ "expr" \in DOMAIN source.m
            /\ "vars" \in DOMAIN source.m
            /\ IsInstanceDict(source.m["vars"])
    THEN EvalExpr(source.m["expr"],
                  VarMap(DOMAIN source.m["vars"].m, source.m["vars"], doc, default_val),
                  default_val)
    ELSE FloatOk(default_val)

\* Lines 319-340.
SourceWith(source, doc, default_val) ==
    IF "constant" \in DOMAIN source.m
    THEN FloatOk(coerce_float(source.m["constant"], default_val))
    ELSE IF /\ "expr" \in DOMAIN source.m
            /\ "vars" \in DOMAIN source.m
            /\ IsInstanceDict(source.m["vars"])
    THEN EvalExpr(source.m["expr"],
                  VarMap(DOMAIN source.m["vars"].m, source.m["vars"], doc, default_val),
                  default_val)
    ELSE IF "path" \in DOMAIN source.m
    THEN ResolveCoerced(doc, source.m["path"], default_val)
    ELSE FloatOk(default_val)

\* src_val of an entry whose source is the mapping `source`.
SourceValue(source, doc) ==
    SourceWith(source, doc, coerce_float(DictGet(source, "default"), Zero))

FloatOfItem(a) == IF a.ok THEN ToFloat(a.v) ELSE a
RangePair(fa, fb, dmin, dmax) ==
    IF fa.ok /\ fb.ok THEN [min |-> fa.x, max |-> fb.x] ELSE [min |-> dmin, max |-> dmax]

\* float(rng[0]), float(rng[1]), or the default pair when either fails.
RangeOf(rng, dmin, dmax) ==
    RangePair(FloatOfItem(SubscriptInt(rng, 0)), FloatOfItem(SubscriptInt(rng, 1)),
              dmin, dmax)

DefaultIn == PyList(<<PyFloat(Zero), PyFloat(One)>>)
DefaultOut == PyList(<<PyInt(0), PyInt(CCMax)>>)

MapRanges(x, in_rng, out_rng, curve, invert, clamp) ==
    map_value(x, in_rng.min, in_rng.max, out_rng.min, out_rng.max, curve, invert, clamp)

\* Lines 343-367.
MapEntry(sv, mapping) ==
    IF ~sv.ok THEN sv
    ELSE IF ~IsInstanceDict(mapping) THEN Raised("AttributeError")
    ELSE MapRanges(sv.x,
                   RangeOf(DictGetOr(mapping, "in", DefaultIn), Zero, One),
                   RangeOf(DictGetOr(mapping, "out", DefaultOut), Zero, Fin(CCMax, 1)),
                   DictGet(mapping, "curve"),
                   Truthy(DictGetOr(mapping, "invert", PyBool(FALSE))),
                   Truthy(DictGetOr(mapping, "clamp", PyBool(TRUE))))

\* Lines 313 and 317-340: src_val; source.get raises AttributeError when
\* source is no mapping.
SourceOf(source, doc) ==
    IF ~IsInstanceDict(source) THEN Raised("AttributeError")
    ELSE SourceValue(source, doc)
EntrySource(entry, doc) ==
    SourceOf(OrEmptyDict(DictGetOr(entry, "source", EmptyDict)), doc)

\* Lines 314 and 343-367: val, from src_val.
EntryMapped(sv, entry) ==
    MapEntry(sv, OrEmptyDict(DictGetOr(entry, "mapping", EmptyDict)))

\* The body of the for loop up to the call of place: IntOk(val), or Raised
\* when an exception leaves map_to_macros.
EntryVal(entry, doc) == EntryMapped(EntrySource(entry, doc), entry)

\* ExplicitSlot with the two range tests of lines 297-300 in the other order.
ExplicitSlotZeroFirst(idx) ==
    IF IsInstanceInt(idx) /\ idx.t # "hugeint"
    THEN (IF 0 <= IntOf(idx) /\ IntOf(idx) <= NumSlots - 1 THEN IntOf(idx)
          ELSE IF 1 <= IntOf(idx) /\ IntOf(idx) <= NumSlots THEN IntOf(idx) - 1
          ELSE -1)
    ELSE -1

\* The slot an integer idx names, or -1 when it names none (slot stays None).
ExplicitSlot(idx) ==
    IF IsInstanceInt(idx) /\ idx.t # "hugeint"
    THEN (IF 1 <= IntOf(idx) /\ IntOf(idx) <= NumSlots THEN IntOf(idx) - 1
          ELSE IF 0 <= IntOf(idx) /\ IntOf(idx) <= NumSlots - 1 THEN IntOf(idx)
          ELSE -1)
    ELSE -1

\* FirstEmpty scanning from the last slot instead of the first.
LastEmpty(vals) ==
    IF \E s \in Slots : vals[s].t = "none"
    THEN CHOOSE s \in Slots :
            vals[s].t = "none" /\ \A r \in (s + 1)..(NumSlots - 1) : vals[r].t # "none"
    ELSE 0

\* FirstEmpty taking a slot that holds 0 for an empty one.
FirstEmptyOrZero(vals) ==
    IF \E s \in Slots : vals[s] \in {PyNone, PyInt(0)}
    THEN CHOOSE s \in Slots :
            /\ vals[s] \in {PyNone, PyInt(0)}
            /\ \A r \in 0..(s - 1) : vals[r] \notin {PyNone, PyInt(0)}
    ELSE 0

\* values.index(None), or 0 when no slot is None.
FirstEmpty(vals) ==
    IF \E s \in Slots : vals[s].t = "none"
    THEN CHOOSE s \in Slots : vals[s].t = "none" /\ \A r \in 0..(s - 1) : vals[r].t # "none"
    ELSE 0

\* PlaceSlot with a collision check: an explicit slot that is taken gives
\* way to the first empty one.
PlaceSlotFree(vals, idx) ==
    IF ExplicitSlot(idx) # -1 /\ vals[ExplicitSlot(idx)].t = "none"
    THEN ExplicitSlot(idx)
    ELSE FirstEmpty(vals)

\* The slot place writes.
PlaceSlot(vals, idx) ==
    IF ExplicitSlot(idx) # -1 THEN ExplicitSlot(idx) ELSE FirstEmpty(vals)

\* ClampCC without the min(127, ...) of line 306.
ClampLow(val) == IF val < 0 THEN 0 ELSE val

ClampCC(val) == IF val < 0 THEN 0 ELSE IF val > CCMax THEN CCMax ELSE val

\* place(val, idx): the list `values` after the call.
place(vals, val, idx) == [vals EXCEPT ![PlaceSlot(vals, idx)] = PyInt(ClampCC(val))]

\* Filled with an unset slot reported as the middle of the range.
FilledMid(vals) == [s \in Slots |-> IF vals[s].t = "int" THEN vals[s].n ELSE 64]

\* The list map_to_macros returns.
Filled(vals) == [s \in Slots |-> IF vals[s].t = "int" THEN vals[s].n ELSE 0]

(***************************************************************************)
(* Inputs                                                                  *)
(***************************************************************************)
Half == Fin(1, 2)
Quarter == Fin(1, 4)

kCutoff == <<"c", "u", "t", "o", "f", "f">>
kFilter == <<"f", "i", "l", "t", "e", "r">>
kDecay == <<"d", "e", "c", "a", "y">>
kEnv2 == <<"e", "n", "v", "2">>
kName == <<"n", "a", "m", "e">>
kOsc == <<"o", "s", "c">>
kAmp == <<"a", "m", "p">>
kBig == <<"b", "i", "g">>
pFilterCutoff == kFilter \o <<".">> \o kCutoff
pEnv2Decay == kEnv2 \o <<".">> \o kDecay
pMissing == <<"d", "o", "e", "s", ".", "n", "o", "t">>

\* The patch of the tests (tests/test_macros.py), cut down, and with one
\* integer too large for a double.
SimplePatch ==
    PyDict((kName :> PyStr(<<"T", "E", "S", "T">>))
        @@ (kFilter :> PyDict(kCutoff :> PyFloat(Half)))
        @@ (kEnv2 :> PyDict(kDecay :> PyFloat(Quarter)))
        @@ (kOsc :> PyList(<<PyDict(kAmp :> PyFloat(Fin(3, 4))),
                             PyDict(kAmp :> PyInt(0))>>))
        @@ (kBig :> PyHugeInt))

Num(x) == [op |-> "Constant", v |-> PyFloat(x)]
Var(id) == [op |-> "Name", id |-> id]
Bin(o, l, r) == [op |-> "BinOp", o |-> o, l |-> l, r |-> r]

Lit(v) == [op |-> "Constant", v |-> v]
Un(o, e) == [op |-> "UnaryOp", o |-> o, e |-> e]
CallOf(f, args, kw) == [op |-> "Call", f |-> f, args |-> args, kw |-> kw]
OtherNode(what) == [op |-> "Other", what |-> what]

\* "0.5*a + b", "a / 0", "a + q", "a < b" and "sqrt(-a)"
ExprMix == Bin("Add", Bin("Mult", Num(Half), Var("a")), Var("b"))
ExprDivZero == Bin("Div", Var("a"), [op |-> "Constant", v |-> PyInt(0)])
ExprUnknown == Bin("Add", Var("a"), Var("q"))
ExprCompare == OtherNode("Compare")
ExprSqrtNeg == CallOf("sqrt", <<Un("USub", Var("a"))>>, FALSE)
VarsAB == PyDict([a |-> PyStr(pFilterCutoff), b |-> PyStr(pEnv2Decay)])

\* The idx key of an entry: absent, or bound to one of these values.
IdxChoices ==
    << EmptyMap,
       [idx |-> PyInt(-1)], [idx |-> PyInt(0)], [idx |-> PyInt(1)],
       [idx |-> PyInt(3)], [idx |-> PyInt(8)], [idx |-> PyInt(9)],
       [idx |-> PyBool(TRUE)], [idx |-> PyBool(FALSE)],
       [idx |-> PyStr(<<"2">>)], [idx |-> PyFloat(Fin(2, 1))] >>

\* The source key of an entry.
SrcChoices ==
    << EmptyMap,
       [source |-> PyDict([constant |-> PyFloat(Half)])],
       [source |-> PyDict([constant |-> PyInt(1)])],
       [source |-> PyDict([constant |-> PyInt(0)])],
       [source |-> PyDict([constant |-> PyStr(<<"x">>),
                           default |-> PyStr(<<"0", ".", "5">>)])],
       [source |-> PyDict([path |-> PyStr(pFilterCutoff), default |-> PyFloat(Zero)])],
       [source |-> PyDict([path |-> PyStr(pMissing), default |-> PyInt(1)])],
       [source |-> PyDict([expr |-> ExprMix, vars |-> VarsAB, default |-> PyInt(0)])],
       [source |-> PyDict([expr |-> ExprDivZero, vars |-> VarsAB, default |-> PyFloat(One)])],
       [source |-> PyDict([expr |-> ExprMix, vars |-> PyList(<<PyStr(<<"a">>)>>),
                           path |-> PyStr(pFilterCutoff)])],
       [source |-> PyDict([constant |-> PyFloat(NaN)])],
       [source |-> PyDict([constant |-> PyFloat(PInf)])],
       [source |-> PyDict([path |-> PyStr(kBig)])],
       [source |-> PyList(<<>>)],
       [source |-> PyStr(<<"a", "b", "c">>)],
       [source |-> PyDict([expr |-> ExprUnknown, vars |-> VarsAB,
                           default |-> PyFloat(Fin(3, 4))])],
       [source |-> PyDict([expr |-> ExprCompare, vars |-> VarsAB,
                           default |-> PyStr(<<"0", ".", "5">>)])],
       [source |-> PyDict([expr |-> ExprSqrtNeg, vars |-> VarsAB,
                           default |-> PyInt(1)])],
       [source |-> PyDict([constant |-> PyFloat(Quarter)])],
       [source |-> PyDict([constant |-> PyFloat(Fin(-1, 2))])],
       [source |-> PyDict([constant |-> PyInt(2)])],
       [source |-> PyDict([constant |-> PyInt(1), path |-> PyStr(pFilterCutoff)])],
       [source |-> PyDict([expr |-> ExprMix, vars |-> VarsAB,
                           path |-> PyStr(pEnv2Decay)])] >>

Range(a, b) == PyList(<<a, b>>)

\* The mapping key of an entry.
MapChoices ==
    << EmptyMap,
       [mapping |-> PyDict([in |-> Range(PyFloat(Zero), PyFloat(One)),
                            out |-> Range(PyInt(0), PyInt(127))])],
       [mapping |-> PyDict([out |-> Range(PyInt(0), PyInt(254))])],
       [mapping |-> PyDict([out |-> Range(PyInt(-127), PyInt(0))])],
       [mapping |-> PyDict([clamp |-> PyBool(FALSE)])],
       [mapping |-> PyDict([in |-> Range(PyInt(0), PyFloat(Half)),
                            curve |-> PyStr(<<"p", "o", "w", ":", "2", ".", "0">>),
                            invert |-> PyBool(TRUE)])],
       [mapping |-> PyDict([in |-> PyList(<<PyInt(0)>>)])],
       [mapping |-> PyDict([in |-> Range(PyInt(1), PyInt(1))])],
       [mapping |-> PyDict([out |-> Range(PyInt(0), PyFloat(PInf))])],
       [mapping |-> PyStr(<<"a", "b", "c">>)],
       [mapping |-> PyDict([in |-> PyList(<<PyInt(0), PyFloat(Half), PyInt(1)>>)])],
       [mapping |-> PyDict([out |-> PyInt(5)])],
       [mapping |-> PyDict([in |-> Range(PyStr(<<"a">>), PyInt(1))])] >>

\* The entry with the i-th idx, s-th source and m-th mapping.
EntryOf(i, s, m) == PyDict(IdxChoices[i] @@ SrcChoices[s] @@ MapChoices[m])

\* The mappings that occur in a macros list, as <<i, s, m>>.  Entries without
\* a usable idx, with a boolean idx and with an explicit idx carry the
\* constant 0.5; the entries of idx 3 run through the sources and mappings;
\* the last six raise.  The expressions of sources 9 and 16 to 18 fail.
EntryChoices ==
    << <<1, 2, 1>>, <<2, 2, 1>>, <<7, 2, 1>>, <<10, 2, 1>>, <<11, 2, 1>>,
       <<8, 2, 1>>, <<9, 2, 1>>,
       <<3, 2, 1>>, <<4, 2, 1>>, <<6, 2, 1>>, <<5, 2, 1>>,
       <<5, 3, 3>>, <<5, 3, 4>>, <<5, 6, 2>>, <<5, 8, 1>>, <<5, 9, 1>>,
       <<5, 2, 6>>, <<5, 5, 7>>, <<5, 7, 8>>, <<5, 10, 1>>, <<5, 1, 1>>,
       <<5, 14, 1>>, <<5, 3, 5>>, <<5, 11, 1>>, <<5, 12, 1>>,
       <<5, 16, 1>>, <<5, 17, 1>>, <<5, 18, 1>>,
       <<5, 19, 2>>, <<5, 20, 2>>, <<5, 21, 1>>, <<5, 22, 1>>, <<5, 23, 1>>,
       <<5, 2, 11>>, <<5, 2, 12>>, <<5, 2, 13>>,
       <<1, 15, 1>>, <<1, 2, 10>>, <<1, 11, 5>>, <<1, 12, 5>>, <<1, 2, 9>>,
       <<1, 13, 1>> >>

Entry(e) == EntryOf(EntryChoices[e][1], EntryChoices[e][2], EntryChoices[e][3])

\* Elements of the macros list that are not mappings.
NonDictChoices ==
    << PyNone, PyInt(5), PyStr(<<"a", "b", "c">>), PyList(<<PyInt(1)>>) >>

\* The patch documents.
Patches == << SimplePatch, PyDict(EmptyMap) >>

\* The elements a macros list is made of: the mappings, then the others.
NumElements == Len(EntryChoices) + Len(NonDictChoices)
Element(k) ==
    IF k <= Len(EntryChoices) THEN Entry(k) ELSE NonDictChoices[k - Len(EntryChoices)]

\* Line 312 on: an element without a get method raises AttributeError there.
HasGet(v) == v.t = "dict"
ElementIdx(entry) == IF HasGet(entry) THEN DictGet(entry, "idx") ELSE PyNone
ElementSource(entry, doc) ==
    IF HasGet(entry) THEN EntrySource(entry, doc) ELSE Raised("AttributeError")
ElementMapped(sv, entry) == IF HasGet(entry) THEN EntryMapped(sv, entry) ELSE sv

\* The elements, and idx, src_val and val of every element on every patch,
\* as explicit tables (@@ enumerates a function), so that each is computed
\* once.  The operators above take the patch as `doc`: TLC evaluates a
\* definition once only when it is constant, and a parameter named after a
\* variable makes it take the operator for one that reads the state.
ElementTable == [k \in 1..NumElements |-> Element(k)] @@ <<>>
IdxTable == [k \in 1..NumElements |-> ElementIdx(ElementTable[k])] @@ <<>>
SourcesOn(doc) ==
    [k \in 1..NumElements |-> ElementSource(ElementTable[k], doc)] @@ <<>>
SourceTable == [p \in 1..Len(Patches) |-> SourcesOn(Patches[p])] @@ <<>>
EntryValsOn(p) ==
    [k \in 1..NumElements |-> ElementMapped(SourceTable[p][k], ElementTable[k])] @@ <<>>
EntryValTable == [p \in 1..Len(Patches) |-> EntryValsOn(p)] @@ <<>>

\* A non-empty macros list; the loop draws its elements one at a time.
MacrosList == PyList(<<PyStr(<<"*">>)>>)

\* The configuration files.
Files ==
    << CfgFile(FALSE, FALSE, PyNone),
       CfgFile(TRUE, FALSE, PyNone),
       CfgFile(TRUE, TRUE, PyNone),
       CfgFile(TRUE, TRUE, PyList(<<PyInt(1)>>)),
       CfgFile(TRUE, TRUE, PyStr(<<"a", "b", "c">>)),
       CfgFile(TRUE, TRUE, PyDict([other |-> PyInt(1)])),
       CfgFile(TRUE, TRUE, PyDict([macros |-> PyNone])),
       CfgFile(TRUE, TRUE, PyDict([macros |-> PyStr(<<"n", "o">>)])),
       CfgFile(TRUE, TRUE, PyDict([macros |-> PyInt(0)])),
       CfgFile(TRUE, TRUE, PyDict([macros |-> PyInt(5)])),
       CfgFile(TRUE, TRUE, PyDict([macros |-> PyDict([a |-> PyInt(1)])])),
       CfgFile(TRUE, TRUE, PyDict([macros |-> PyList(<<>>)])),
       CfgFile(TRUE, TRUE, PyDict([macros |-> MacrosList])) >>

(***************************************************************************)
(* One call of map_to_macros                                               *)
(***************************************************************************)
VARIABLES
    pc,       \* "load", "loop", "done" (returned) or "raised" (an exception left)
    file,     \* the configuration file at macro_map_path
    patch,    \* the patch document
    entries,  \* cfg.get("macros", [])
    values,   \* the list `values`
    result,   \* the list returned
    last,     \* history: what the latest pass of the for loop did, and on
              \* which element of the list
    written,  \* history: the slots place has written
    fbSlots,  \* history: the slots place has written for want of a valid idx
    call      \* a call of resolve_path on its own: arguments and outcome

vars == <<pc, file, patch, entries, values, result, last, written, fbSlots, call>>

PatchIndex == CHOOSE p \in 1..Len(Patches) : Patches[p] = patch

\* No call of resolve_path on its own is under way.
NoCall == [at |-> "none"]

NoStep ==
    [act |-> "none", elem |-> 0, mapping |-> FALSE, idx |-> PyNone, val |-> 0,
     slot |-> 0, fb |-> FALSE, exc |-> ""]

Init ==
    /\ pc = "load"
    /\ \E f \in 1..Len(Files) : file = Files[f]
    /\ \E p \in 1..Len(Patches) : patch = Patches[p]
    /\ entries = PyNone
    /\ values = [s \in Slots |-> PyNone]
    /\ result = <<>>
    /\ last = NoStep
    /\ written = {}
    /\ fbSlots = {}
    /\ call = NoCall

\* The slot array of the call that went before, left where a new call finds it.
LeftValues == values

\* Line 290: the slot array of a call is made anew.
FreshValues == [s \in Slots |-> PyNone]

\* Lines 288-290.
Load ==
    /\ pc = "load"
    /\ entries' = load_macro_map(file)
    /\ values' = FreshValues
    /\ pc' = "loop"
    /\ UNCHANGED <<file, patch, result, last, written, fbSlots, call>>

\* IsSkipped testing for None instead of for a mapping.
SkipsNone(entry) == entry.t = "none"

\* Lines 309-310.
IsSkipped(entry) == ~IsInstanceDict(entry)

\* A pass of the for loop that takes the continue of line 310.
SkipEntry(k) ==
    /\ pc = "loop"
    /\ entries.items # <<>>
    /\ IsSkipped(ElementTable[k])
    /\ last' = [NoStep EXCEPT !.act = "skip", !.elem = k,
                              !.mapping = ElementTable[k].t = "dict"]
    /\ UNCHANGED <<pc, file, patch, entries, values, result, written, fbSlots, call>>

\* A pass of the for loop through to the call of place.
ProcessEntry(k) ==
    LET idx == IdxTable[k]
        ev == EntryValTable[PatchIndex][k]
        slot == PlaceSlot(values, idx)
        fb == ExplicitSlot(idx) = -1
    IN  /\ pc = "loop"
        /\ entries.items # <<>>
        /\ ~IsSkipped(ElementTable[k])
        /\ ev.ok
        /\ values' = place(values, ev.n, idx)
        /\ last' = [act |-> "place", elem |-> k, mapping |-> ElementTable[k].t = "dict",
                    idx |-> idx, val |-> ev.n, slot |-> slot, fb |-> fb, exc |-> ""]
        /\ written' = written \cup {slot}
        /\ fbSlots' = IF fb THEN fbSlots \cup {slot} ELSE fbSlots
        /\ UNCHANGED <<pc, file, patch, entries, result, call>>

\* A pass of the for loop that raises: the exception leaves map_to_macros,
\* which has no handler around the loop body.
FailEntry(k) ==
    LET ev == EntryValTable[PatchIndex][k]
    IN  /\ pc = "loop"
        /\ entries.items # <<>>
        /\ ~IsSkipped(ElementTable[k])
        /\ ~ev.ok
        /\ pc' = "raised"
        /\ last' = [NoStep EXCEPT !.act = "raise", !.elem = k,
                                  !.mapping = ElementTable[k].t = "dict",
                                  !.idx = IdxTable[k], !.exc = ev.exc]
        /\ UNCHANGED <<file, patch, entries, values, result, written, fbSlots, call>>

\* Line 371, once the list is exhausted.
Return ==
    /\ pc = "loop"
    /\ result' = Filled(values)
    /\ pc' = "done"
    /\ UNCHANGED <<file, patch, entries, values, last, written, fbSlots, call>>

Next ==
    \/ Load
    \/ \E k \in 1..NumElements : SkipEntry(k)
    \/ \E k \in 1..NumElements : ProcessEntry(k)
    \/ \E k \in 1..NumElements : FailEntry(k)
    \/ Return

Spec == Init /\ [][Next]_vars

(***************************************************************************)
(* Two calls of map_to_macros, A and B, whose steps interleave in every    *)
(* order, one after the other included.  The variables above are the frame *)
(* of A; `call` holds the two macros lists and the frame of B.             *)
(***************************************************************************)
ElementOf(triple) == CHOOSE k \in 1..Len(EntryChoices) : EntryChoices[k] = triple

\* An entry without idx, an entry of idx 3 that reads the patch, an entry
\* that raises, and an element that is no mapping.
PairElements ==
    {ElementOf(<<1, 2, 1>>), ElementOf(<<5, 6, 2>>), ElementOf(<<1, 15, 1>>),
     Len(EntryChoices) + 2}

MaxEntries == 2
PairLists == UNION {[1..n -> PairElements] : n \in 0..MaxEntries}

\* The configuration file whose macros list is `list`.
FileOf(list) ==
    CfgFile(TRUE, TRUE, PyDict([macros |-> PyList([i \in 1..Len(list) |-> ElementTable[list[i]]])]))

\* A pass of the for loop over element k, on the slot array vals and the
\* p-th patch.
PassOf(vals, k, p) ==
    IF IsSkipped(ElementTable[k]) THEN [pc |-> "loop", vals |-> vals, exc |-> ""]
    ELSE IF EntryValTable[p][k].ok
    THEN [pc |-> "loop", vals |-> place(vals, EntryValTable[p][k].n, IdxTable[k]),
          exc |-> ""]
    ELSE [pc |-> "raised", vals |-> vals, exc |-> EntryValTable[p][k].exc]

\* The slot array of the frame of A, and the one the closure `place` of B
\* is bound to.
FrameA == values
FrameB == call.valuesB

InitPair ==
    /\ pc = "load"
    /\ patch = Patches[1]
    /\ entries = PyNone
    /\ values = [s \in Slots |-> PyNone]
    /\ result = <<>>
    /\ last = NoStep
    /\ written = {}
    /\ fbSlots = {}
    /\ \E la \in PairLists, lb \in PairLists, pb \in 1..Len(Patches) :
          /\ file = FileOf(la)
          /\ call = [at |-> "pair", listA |-> la, posA |-> 1, excA |-> "",
                     listB |-> lb, posB |-> 1, excB |-> "", patchB |-> pb,
                     pcB |-> "load", valuesB |-> [s \in Slots |-> PyNone],
                     resultB |-> <<>>, seq |-> FALSE]

\* A: a pass of the for loop.
PassA ==
    /\ pc = "loop"
    /\ call.posA <= Len(call.listA)
    /\ values' = PassOf(values, call.listA[call.posA], 1).vals
    /\ pc' = PassOf(values, call.listA[call.posA], 1).pc
    /\ call' = [call EXCEPT !.posA = @ + 1,
                            !.excA = PassOf(values, call.listA[call.posA], 1).exc]
    /\ UNCHANGED <<file, patch, entries, result, last, written, fbSlots>>

\* A: line 371.
ReturnA ==
    /\ pc = "loop"
    /\ call.posA > Len(call.listA)
    /\ result' = Filled(values)
    /\ pc' = "done"
    /\ UNCHANGED <<file, patch, entries, values, last, written, fbSlots, call>>

\* B: lines 288-290; seq records that A was over when B began.
LoadB ==
    /\ call.at = "pair"
    /\ call.pcB = "load"
    /\ call' = [call EXCEPT !.pcB = "loop", !.valuesB = FreshValues,
                            !.seq = pc \in {"done", "raised"}]
    /\ UNCHANGED <<pc, file, patch, entries, values, result, last, written, fbSlots>>

\* B: a pass of the for loop.
PassB ==
    /\ call.at = "pair"
    /\ call.pcB = "loop"
    /\ call.posB <= Len(call.listB)
    /\ call' = [call EXCEPT
                  !.posB = @ + 1,
                  !.valuesB = PassOf(FrameB, call.listB[call.posB], call.patchB).vals,
                  !.pcB = PassOf(FrameB, call.listB[call.posB], call.patchB).pc,
                  !.excB = PassOf(FrameB, call.listB[call.posB], call.patchB).exc]
    /\ UNCHANGED <<pc, file, patch, entries, values, result, last, written, fbSlots>>

\* B: line 371.
ReturnB ==
    /\ call.at = "pair"
    /\ call.pcB = "loop"
    /\ call.posB > Len(call.listB)
    /\ call' = [call EXCEPT !.pcB = "done", !.resultB = Filled(FrameB)]
    /\ UNCHANGED <<pc, file, patch, entries, values, result, last, written, fbSlots>>

NextPair == Load \/ PassA \/ ReturnA \/ LoadB \/ PassB \/ ReturnB

SpecPair == InitPair /\ [][NextPair]_vars

(***************************************************************************)
(* One call of resolve_path                                                *)
(***************************************************************************)
\* A path is written from steps: a key, an index written as a dotted
\* segment, an index written in brackets on the segment before it, or
\* brackets around text that is no integer.
KeySeg(name) == [k |-> "key", name |-> name, i |-> 0]
DotIndex(i) == [k |-> "dot", name |-> <<>>, i |-> i]
BracketIndexOf(i) == [k |-> "br", name |-> <<>>, i |-> i]
BracketText(txt) == [k |-> "brx", name |-> txt, i |-> 0]

MaxSteps == 4
PathKeys == {<<"a">>, <<"b">>, <<"x">>}
PathIndices == {0, 1}
Steps ==
    {KeySeg(n) : n \in PathKeys} \cup {DotIndex(i) : i \in PathIndices}
        \cup {BracketIndexOf(i) : i \in PathIndices} \cup {BracketText(<<"x">>)}

\* A path starts with a key, and brackets stand on a key or on brackets.
WellFormed(p) ==
    /\ p[1].k = "key"
    /\ \A j \in 2..Len(p) : p[j].k \in {"br", "brx"} => p[j - 1].k \in {"key", "br", "brx"}
Paths == {p \in UNION {[1..n -> Steps] : n \in 1..MaxSteps} : WellFormed(p)}

\* The text of a path: a.b[0][1], a.b.0.1, ...
DigitText(i) == <<CHOOSE c \in DOMAIN DigitOf : DigitOf[c] = i>>
StepText(st, first) ==
    CASE st.k = "key" -> (IF first THEN <<>> ELSE <<".">>) \o st.name
      [] st.k = "dot" -> <<".">> \o DigitText(st.i)
      [] st.k = "br" -> <<"[">> \o DigitText(st.i) \o <<"]">>
      [] st.k = "brx" -> <<"[">> \o st.name \o <<"]">>
RECURSIVE PathTextFrom(_, _)
PathTextFrom(p, j) ==
    IF j > Len(p) THEN <<>> ELSE StepText(p[j], j = 1) \o PathTextFrom(p, j + 1)
PathText(p) == PathTextFrom(p, 1)

\* {a: {a: 7, b: [[1, 2.5], [3, 4]], x: null},
\*  b: [0.5, {a: 10**400, b: "4", x: [true, "zz"]}]}
NestedDoc ==
    PyDict((<<"a">> :> PyDict((<<"a">> :> PyInt(7))
                @@ (<<"b">> :> PyList(<<PyList(<<PyInt(1), PyFloat(Fin(5, 2))>>),
                                         PyList(<<PyInt(3), PyInt(4)>>)>>))
                @@ (<<"x">> :> PyNone)))
        @@ (<<"b">> :> PyList(<<PyFloat(Half),
                                PyDict((<<"a">> :> PyHugeInt)
                                    @@ (<<"b">> :> PyStr(<<"4">>))
                                    @@ (<<"x">> :> PyList(<<PyBool(TRUE),
                                                            PyStr(<<"z", "z">>)>>)))>>)))

Documents == <<NestedDoc>>
Defaults == <<PyNone, PyFloat(Fin(-9, 1))>>

\* Every variable of map_to_macros at rest.
Idle ==
    /\ pc = "idle"
    /\ file = Files[1]
    /\ patch = Patches[1]
    /\ entries = PyNone
    /\ values = [s \in Slots |-> PyNone]
    /\ result = <<>>
    /\ last = NoStep
    /\ written = {}
    /\ fbSlots = {}

InitResolve ==
    /\ Idle
    /\ \E d \in 1..Len(Documents), p \in Paths, df \in 1..Len(Defaults) :
          call = [at |-> "call", root |-> Documents[d], steps |-> p,
                  dotted |-> PathText(p), default |-> Defaults[df],
                  ret |-> PyNone, exc |-> ""]

\* ReturnOf for a resolve_path that stores what it found in the document.
ReturnInRoot(r) == [call EXCEPT !.at = "returned", !.ret = r.v, !.root = r.v]

\* Line 139 (and the returns of `default`): the call is over, with the
\* value returned; the document is the one that was passed.
ReturnOf(r) == [call EXCEPT !.at = "returned", !.ret = r.v]
RaiseOf(r) == [call EXCEPT !.at = "raised", !.exc = r.exc]

\* resolve_path returns.
ResolveReturns ==
    /\ call.at = "call"
    /\ resolve_path(call.root, call.dotted, call.default).ok
    /\ call' = ReturnOf(resolve_path(call.root, call.dotted, call.default))
    /\ UNCHANGED <<pc, file, patch, entries, values, result, last, written, fbSlots>>

\* An exception leaves resolve_path.
ResolveRaises ==
    /\ call.at = "call"
    /\ ~resolve_path(call.root, call.dotted, call.default).ok
    /\ call' = RaiseOf(resolve_path(call.root, call.dotted, call.default))
    /\ UNCHANGED <<pc, file, patch, entries, values, result, last, written, fbSlots>>

NextResolve == ResolveReturns \/ ResolveRaises

SpecResolve == InitResolve /\ [][NextResolve]_vars

(***************************************************************************)
(* A call of map_to_macros or a call of resolve_path on its own            *)
(***************************************************************************)
InitRead == Init \/ InitResolve

NextRead == Next \/ NextResolve

SpecRead == InitRead /\ [][NextRead]_vars

(***************************************************************************)
(* One call of _SafeEval.eval                                              *)
(***************************************************************************)
\* 2, 0, True, 's', a, q, a < 1, a.b, [1]
Leaves ==
    {Lit(PyInt(2)), Lit(PyInt(0)), Lit(PyBool(TRUE)), Lit(PyStr(<<"s">>)),
     Var("a"), Var("q"),
     OtherNode("Compare"), OtherNode("Attribute"), OtherNode("List")}

\* + - * / ** % and //; unary + - and not
BinOps == {"Add", "Sub", "Mult", "Div", "Pow", "Mod", "FloorDiv"}
UnaryOps == {"UAdd", "USub", "Not"}
\* The four allowed names, one other name, and a callee that is no name.
Callees == AllowedFuncs \cup {"pow", ""}

MaxArgs == 2
ArgLists == UNION {[1..n -> Leaves] : n \in 1..MaxArgs}

Trees ==
    Leaves
        \cup {Bin(o, l, r) : o \in BinOps, l \in Leaves, r \in Leaves}
        \cup {Un(o, e) : o \in UnaryOps, e \in Leaves}
        \cup {CallOf(f, args, kw) : f \in Callees, args \in ArgLists, kw \in BOOLEAN}
        \cup {[op |-> "SyntaxError"]}

\* variables = {"a": -4.0}
EvalVariables == [a |-> Fin(-4, 1)]

InitEval ==
    /\ Idle
    /\ \E tree \in Trees :
          call = [at |-> "eval", tree |-> tree, variables |-> EvalVariables,
                  ret |-> Zero, exc |-> ""]

\* _SafeEval.eval returns a float.
EvalReturns ==
    /\ call.at = "eval"
    /\ SafeEval(call.tree, call.variables).ok
    /\ call' = [call EXCEPT !.at = "evaluated",
                            !.ret = SafeEval(call.tree, call.variables).x]
    /\ UNCHANGED <<pc, file, patch, entries, values, result, last, written, fbSlots>>

\* _SafeEval.eval raises.
EvalRaises ==
    /\ call.at = "eval"
    /\ ~SafeEval(call.tree, call.variables).ok
    /\ call' = [call EXCEPT !.at = "failed",
                            !.exc = SafeEval(call.tree, call.variables).exc]
    /\ UNCHANGED <<pc, file, patch, entries, values, result, last, written, fbSlots>>

NextEval == EvalReturns \/ EvalRaises

SpecEval == InitEval /\ [][NextEval]_vars

(***************************************************************************)
(* One call of _map_value                                                  *)
(***************************************************************************)
MapXs == {Fin(-1, 2), Zero, Quarter, One, Fin(257, 256), Fin(2, 1), PInf, NaN}
\* [in_min, in_max]: two proper ranges and two degenerate ones.
MapIns == {<<Zero, One>>, <<Zero, Half>>, <<One, One>>, <<Zero, Zero>>}
\* [out_min, out_max]
MapOuts ==
    {<<Zero, Fin(CCMax, 1)>>, <<Fin(10, 1), Fin(20, 1)>>, <<Fin(-127, 1), Zero>>,
     <<Zero, PInf>>}
\* None, "linear", "pow:2.0", "pow:0.5", "pow:-1"
MapCurves ==
    {PyNone, PyStr(<<"l", "i", "n", "e", "a", "r">>),
     PyStr(<<"p", "o", "w", ":", "2", ".", "0">>),
     PyStr(<<"p", "o", "w", ":", "0", ".", "5">>),
     PyStr(<<"p", "o", "w", ":", "-", "1">>)}

InitMap ==
    /\ Idle
    /\ \E x \in MapXs, in_rng \in MapIns, out_rng \in MapOuts, curve \in MapCurves,
          invert \in BOOLEAN, clamp \in BOOLEAN :
          call = [at |-> "map", x |-> x, in_min |-> in_rng[1], in_max |-> in_rng[2],
                  out_min |-> out_rng[1], out_max |-> out_rng[2], curve |-> curve,
                  invert |-> invert, clamp |-> clamp, ret |-> 0, exc |-> ""]

MapValueOf(c) ==
    map_value(c.x, c.in_min, c.in_max, c.out_min, c.out_max, c.curve, c.invert, c.clamp)

\* _map_value returns an integer.
MapReturns ==
    /\ call.at = "map"
    /\ MapValueOf(call).ok
    /\ call' = [call EXCEPT !.at = "mapped", !.ret = MapValueOf(call).n]
    /\ UNCHANGED <<pc, file, patch, entries, values, result, last, written, fbSlots>>

\* round() raises in _map_value.
MapRaises ==
    /\ call.at = "map"
    /\ ~MapValueOf(call).ok
    /\ call' = [call EXCEPT !.at = "failed", !.exc = MapValueOf(call).exc]
    /\ UNCHANGED <<pc, file, patch, entries, values, result, last, written, fbSlots>>

NextMap == MapReturns \/ MapRaises

SpecMap == InitMap /\ [][NextMap]_vars

(***************************************************************************)
(* midi.py: load_cc_assignments, _clamp7, send_macros and send_cc_batch    *)
(***************************************************************************)
\* int(v): a float is cut towards zero.
Trunc(x) == IF x.n >= 0 THEN x.n \div x.d ELSE -((-x.n) \div x.d)
ToInt(v) ==
    CASE v.t = "int" -> IntOk(v.n)
      [] v.t = "bool" -> IntOk(IF v.b THEN 1 ELSE 0)
      [] v.t = "float" ->
           IF IsFin(v.x) THEN IntOk(Trunc(v.x))
           ELSE Raised(IF IsNaN(v.x) THEN "ValueError" ELSE "OverflowError")
      [] v.t = "str" -> ParseInt(v.s)
      [] OTHER -> Raised("TypeError")

\* list(range(1, 9)), by slot 0..7.
CCDefault == [s \in Slots |-> s + 1]

\* Line 230: [int(x) for x in cc[:8]], or the first exception int raises.
CCNums(items) ==
    IF \A s \in Slots : ToInt(items[s + 1]).ok
    THEN ValOk([s \in Slots |-> ToInt(items[s + 1]).n])
    ELSE ToInt(items[(CHOOSE s \in Slots :
                        /\ ~ToInt(items[s + 1]).ok
                        /\ \A r \in 0..(s - 1) : ToInt(items[r + 1]).ok) + 1])

\* Lines 243-246: the position an integer idx names, -1 when it names none.
CCSlot(idx) ==
    IF 1 <= IntOf(idx) /\ IntOf(idx) <= 8 THEN IntOf(idx) - 1
    ELSE IF 0 <= IntOf(idx) /\ IntOf(idx) <= 7 THEN IntOf(idx)
    ELSE -1

\* Lines 240-246, for an entry that is a mapping.
CCAssignAt(arr, idx, cc_num) ==
    IF IsInstanceInt(idx) /\ IsInstanceInt(cc_num) /\ CCSlot(idx) # -1
    THEN [arr EXCEPT ![CCSlot(idx)] = cc_num]
    ELSE arr

\* One pass of the for loop of line 237.
CCAssign(arr, entry) ==
    IF ~IsInstanceDict(entry) THEN arr
    ELSE CCAssignAt(arr, DictGet(entry, "idx"), DictGet(entry, "cc"))

RECURSIVE CCArr(_, _)
CCArr(arr, items) ==
    IF items = <<>> THEN arr ELSE CCArr(CCAssign(arr, Head(items)), Tail(items))

\* Lines 248-251.
CCFill(arr) == [s \in Slots |-> IF IsInstanceInt(arr[s]) THEN IntOf(arr[s]) ELSE s + 1]

\* CCOptions with the per-macro form tried before the `cc` list.
CCOptionsMacrosFirst(cc, macros) ==
    IF IsInstanceList(macros)
    THEN ValOk(CCFill(CCArr([s \in Slots |-> PyNone], macros.items)))
    ELSE IF IsInstanceList(cc) /\ Len(cc.items) >= 8 THEN CCNums(cc.items)
    ELSE ValOk(CCDefault)

\* Lines 228-253, on the loaded data.
CCOptions(cc, macros) ==
    IF IsInstanceList(cc) /\ Len(cc.items) >= 8 THEN CCNums(cc.items)
    ELSE IF IsInstanceList(macros)
    THEN ValOk(CCFill(CCArr([s \in Slots |-> PyNone], macros.items)))
    ELSE ValOk(CCDefault)
CCFrom(data) ==
    IF ~IsInstanceDict(data) THEN Raised("AttributeError")
    ELSE CCOptions(DictGet(data, "cc"), DictGet(data, "macros"))

CCOrDefault(r) == IF r.ok THEN r.v ELSE CCDefault

\* load_cc_assignments(path), with yaml importable: the 8 CC numbers by slot.
load_cc_assignments(f) ==
    IF ~f.exists \/ ~f.parses THEN CCDefault
    ELSE CCOrDefault(CCFrom(OrEmptyDict(f.top)))

\* _clamp7 with the upper limit left out.
Clamp7Low(v) == IF ToInt(v).n < 0 THEN 0 ELSE ToInt(v).n

\* _clamp7(v), for a v that int() accepts.
Clamp7(v) ==
    IF ToInt(v).n < 0 THEN 0 ELSE IF ToInt(v).n > 127 THEN 127 ELSE ToInt(v).n

\* Line 281: cc_used, by slot.
CCUsed(ccm) ==
    IF Len(ccm.items) >= 8 THEN [s \in Slots |-> ToInt(ccm.items[s + 1]).n]
    ELSE CCDefault

\* Line 282: vals, by slot.
ValsOf(vs) == [s \in Slots |-> IF s < Len(vs.items) THEN vs.items[s + 1] ELSE PyInt(0)]

\* Line 284: the pairs, as messages in the order of their sending.
PairsFrom(cc_used, vals) ==
    [i \in 1..8 |-> [control |-> cc_used[i - 1], value |-> Clamp7(vals[i - 1])]]
PairsOf(vs, ccm) == PairsFrom(CCUsed(ccm), ValsOf(vs))

\* Lines 277-278.
CCMapOr(ccm, f) ==
    IF ccm.t = "none"
    THEN PyList([i \in 1..8 |-> PyInt(load_cc_assignments(f)[i - 1])])
    ELSE ccm

(***************************************************************************)
(* One call of load_cc_assignments                                         *)
(***************************************************************************)
CCEntry(idx, cc_num) == PyDict([idx |-> idx, cc |-> cc_num])

\* The entries of the macros lists: idx 0, 3 and 8 as in the test of
\* tests/test_midi.py, idx 1, a boolean idx, a cc that is no integer, and an
\* element that is no mapping.
CCEntryChoices ==
    {CCEntry(PyInt(0), PyInt(10)), CCEntry(PyInt(3), PyInt(40)),
     CCEntry(PyInt(8), PyInt(99)), CCEntry(PyInt(1), PyInt(5)),
     CCEntry(PyBool(TRUE), PyInt(7)), CCEntry(PyInt(2), PyStr(<<"9">>)),
     PyInt(5)}

MaxCCEntries == 3
CCLists == UNION {[1..n -> CCEntryChoices] : n \in 0..MaxCCEntries}

CCList(lo, n) == PyList([i \in 1..n |-> PyInt(lo + i)])

\* Files without a macros list: missing, unreadable, empty, a top-level
\* list, and `cc` lists of 3, 8 and 9 numbers, of 8 mixed values and of 8
\* values one of which is null.
CCOtherFiles ==
    {CfgFile(FALSE, FALSE, PyNone), CfgFile(TRUE, FALSE, PyNone),
     CfgFile(TRUE, TRUE, PyNone), CfgFile(TRUE, TRUE, PyList(<<PyInt(1)>>)),
     CfgFile(TRUE, TRUE, PyDict([cc |-> CCList(20, 3)])),
     CfgFile(TRUE, TRUE, PyDict([cc |-> CCList(20, 8)])),
     CfgFile(TRUE, TRUE, PyDict([cc |-> CCList(20, 9)])),
     CfgFile(TRUE, TRUE,
             PyDict([cc |-> PyList(<<PyStr(<<"5">>), PyFloat(Fin(5, 2)), PyBool(TRUE),
                                     PyInt(4), PyInt(5), PyInt(6), PyInt(7), PyInt(8)>>)])),
     CfgFile(TRUE, TRUE,
             PyDict([cc |-> PyList(<<PyNone, PyInt(2), PyInt(3), PyInt(4), PyInt(5),
                                     PyInt(6), PyInt(7), PyInt(8)>>)]))}

\* A file with a macros list: alone, and beside a `cc` list of 3 or of 8
\* numbers.
CCMacrosFiles ==
    {CfgFile(TRUE, TRUE, PyDict([macros |-> PyList(l)])) : l \in CCLists}
        \cup {CfgFile(TRUE, TRUE, PyDict([macros |-> PyList(l), cc |-> CCList(20, n)])) :
                 l \in CCLists, n \in {3, 8}}

CCFiles == CCOtherFiles \cup CCMacrosFiles

InitCC ==
    /\ Idle
    /\ \E f \in CCFiles : call = [at |-> "cc", file |-> f, ret |-> CCDefault]

\* load_cc_assignments returns; it has no way to raise (line 254).
CCReturns ==
    /\ call.at = "cc"
    /\ call' = [call EXCEPT !.at = "cc_done", !.ret = load_cc_assignments(call.file)]
    /\ UNCHANGED <<pc, file, patch, entries, values, result, last, written, fbSlots>>

NextCC == CCReturns

SpecCC == InitCC /\ [][NextCC]_vars

(***************************************************************************)
(* One call of send_macros (mido importable, the port exists)              *)
(***************************************************************************)
SendPalette == <<PyInt(200), PyInt(-5), PyInt(64), PyFloat(Fin(3, 2)), PyInt(0)>>
MaxValues == 9
\* The n values that begin at the k-th of the palette.
SendValues(n, k) ==
    PyList([i \in 1..n |-> SendPalette[((i + k) % Len(SendPalette)) + 1]])

\* cc_map: None, or 0, 7, 8 or 9 numbers from 21 on.
SendMaps == {PyNone, CCList(20, 0), CCList(20, 7), CCList(20, 8), CCList(20, 9)}
\* What load_cc_assignments() finds at its default path.
SendFiles ==
    {CfgFile(FALSE, FALSE, PyNone), CfgFile(TRUE, TRUE, PyDict([cc |-> CCList(30, 8)]))}

InitSend ==
    /\ Idle
    /\ \E n \in 0..MaxValues, k \in 0..(Len(SendPalette) - 1), ccm \in SendMaps,
          f \in SendFiles :
          call = [at |-> "send", vals |-> SendValues(n, k), cc_map |-> ccm, file |-> f,
                  pairs |-> <<>>, next |-> 1, port |-> "closed", opens |-> 0,
                  sent |-> <<>>]

\* Lines 276-284 and the `with` of line 195: the pairs are built and the
\* port is opened.
SendOpen ==
    /\ call.at = "send"
    /\ call' = [call EXCEPT !.at = "batch",
                            !.pairs = PairsOf(call.vals, CCMapOr(call.cc_map, call.file)),
                            !.port = "open",
                            !.opens = @ + 1]
    /\ UNCHANGED <<pc, file, patch, entries, values, result, last, written, fbSlots>>

\* Lines 196-200: a pass of the for loop sends one message.
SendOne ==
    /\ call.at = "batch"
    /\ call.next <= Len(call.pairs)
    /\ call' = [call EXCEPT !.sent = Append(@, call.pairs[call.next]), !.next = @ + 1]
    /\ UNCHANGED <<pc, file, patch, entries, values, result, last, written, fbSlots>>

\* The end of the `with` block of line 195: the port is closed.
SendClose ==
    /\ call.at = "batch"
    /\ call.next > Len(call.pairs)
    /\ call' = [call EXCEPT !.at = "sent", !.port = "closed"]
    /\ UNCHANGED <<pc, file, patch, entries, values, result, last, written, fbSlots>>

NextSend == SendOpen \/ SendOne \/ SendClose

SpecSend == InitSend /\ [][NextSend]_vars

(***************************************************************************)
(* One call of send_cc or of send_cc_batch (mido importable, the port      *)
(* exists, CC numbers and the channel are valid MIDI numbers)              *)
(***************************************************************************)
\* The message of lines 179 and 197, with channel 0 whatever is asked.
MessageOnZero(cc, v, ch) == [control |-> ToInt(cc).n, value |-> Clamp7(v), channel |-> 0]

\* mido.Message("control_change", control=int(cc), value=_clamp7(value),
\* channel=int(channel)).
MessageOf(cc, v, ch) ==
    [control |-> ToInt(cc).n, value |-> Clamp7(v), channel |-> ToInt(ch).n]

CCPair(cc, v) == [cc |-> cc, value |-> v]
PairChoices ==
    {CCPair(PyInt(7), PyInt(200)), CCPair(PyInt(10), PyInt(-5)),
     CCPair(PyInt(7), PyInt(64)), CCPair(PyInt(0), PyFloat(Fin(3, 2)))}
MaxPairs == 3
BatchLists == UNION {[1..n -> PairChoices] : n \in 0..MaxPairs}
Channels == {PyInt(0), PyInt(9)}

InitBatch ==
    /\ Idle
    /\ \E ch \in Channels :
          \/ \E l \in BatchLists :
                call = [at |-> "batch_start", pairs |-> l, channel |-> ch, next |-> 1,
                        port |-> "closed", opens |-> 0, sent |-> <<>>]
          \/ \E pr \in PairChoices :
                call = [at |-> "cc_start", pairs |-> <<pr>>, channel |-> ch, next |-> 1,
                        port |-> "closed", opens |-> 0, sent |-> <<>>]

\* send_cc_batch, line 195: the port is opened.
BatchOpen ==
    /\ call.at = "batch_start"
    /\ call' = [call EXCEPT !.at = "batch_loop", !.port = "open", !.opens = @ + 1]
    /\ UNCHANGED <<pc, file, patch, entries, values, result, last, written, fbSlots>>

\* Lines 196-200: a pass of the loop builds one message and sends it.
BatchSend ==
    /\ call.at = "batch_loop"
    /\ call.next <= Len(call.pairs)
    /\ call' = [call EXCEPT
                   !.sent = Append(@, MessageOf(call.pairs[call.next].cc,
                                                call.pairs[call.next].value,
                                                call.channel)),
                   !.next = @ + 1]
    /\ UNCHANGED <<pc, file, patch, entries, values, result, last, written, fbSlots>>

\* The end of the `with` block of line 195.
BatchClose ==
    /\ call.at = "batch_loop"
    /\ call.next > Len(call.pairs)
    /\ call' = [call EXCEPT !.at = "batch_done", !.port = "closed"]
    /\ UNCHANGED <<pc, file, patch, entries, values, result, last, written, fbSlots>>

\* send_cc, lines 179-180: the message is built, then the port is opened.
SingleOpen ==
    /\ call.at = "cc_start"
    /\ call' = [call EXCEPT !.at = "cc_open", !.port = "open", !.opens = @ + 1]
    /\ UNCHANGED <<pc, file, patch, entries, values, result, last, written, fbSlots>>

\* Line 181, and the end of the `with` block.
SingleSend ==
    /\ call.at = "cc_open"
    /\ call' = [call EXCEPT
                   !.at = "cc_sent",
                   !.port = "closed",
                   !.sent = Append(@, MessageOf(call.pairs[1].cc, call.pairs[1].value,
                                                call.channel)),
                   !.next = @ + 1]
    /\ UNCHANGED <<pc, file, patch, entries, values, result, last, written, fbSlots>>

NextBatch == BatchOpen \/ BatchSend \/ BatchClose \/ SingleOpen \/ SingleSend

SpecBatch == InitBatch /\ [][NextBatch]_vars

(***************************************************************************)
(* find_output_port, and one call of it (mido importable).  Port names are *)
(* text; a query resolves to PyStr of a name or to PyNone.                 *)
(***************************************************************************)
\* s.find(q) >= 0
Contains(s, q) == \E i \in 0..(Len(s) - Len(q)) : SubSeq(s, i + 1, i + Len(q)) = q

\* `query in ports`
InPorts(query, ports) == \E i \in 1..Len(ports) : ports[i] = query

\* Lines 115-117: the first port equal to the query when both are lowered.
RECURSIVE FirstLowerEqual(_, _)
FirstLowerEqual(query, ports) ==
    IF ports = <<>> THEN PyNone
    ELSE IF Lower(Head(ports)) = Lower(query) THEN PyStr(Head(ports))
    ELSE FirstLowerEqual(query, Tail(ports))

\* Line 123: p.lower() if case_insensitive else p.
Folded(s, case_insensitive) == IF case_insensitive THEN Lower(s) ELSE s

\* Lines 121-124: the first port that contains q.
RECURSIVE FirstContaining(_, _, _)
FirstContaining(q, ports, case_insensitive) ==
    IF ports = <<>> THEN PyNone
    ELSE IF Contains(Folded(Head(ports), case_insensitive), q) THEN PyStr(Head(ports))
    ELSE FirstContaining(q, Tail(ports), case_insensitive)

\* Lines 119-125.
FindSubstring(query, ports, case_insensitive, substring) ==
    IF substring
    THEN FirstContaining(Folded(query, case_insensitive), ports, case_insensitive)
    ELSE PyNone

\* Lines 113-125.
FindInsensitive(query, ports, case_insensitive, substring) ==
    IF case_insensitive /\ FirstLowerEqual(query, ports) # PyNone
    THEN FirstLowerEqual(query, ports)
    ELSE FindSubstring(query, ports, case_insensitive, substring)

\* FindTiers with the substring search tried first.
FindSubstringFirst(query, ports, case_insensitive, substring) ==
    IF FindSubstring(query, ports, case_insensitive, substring) # PyNone
    THEN FindSubstring(query, ports, case_insensitive, substring)
    ELSE IF InPorts(query, ports) THEN PyStr(query)
    ELSE FindInsensitive(query, ports, case_insensitive, substring)

\* Lines 109-125.
FindTiers(query, ports, case_insensitive, substring) ==
    IF InPorts(query, ports) THEN PyStr(query)
    ELSE FindInsensitive(query, ports, case_insensitive, substring)

\* find_output_port(query, case_insensitive=..., substring=...) when
\* list_output_ports() gives `ports`.
find_output_port(query, ports, case_insensitive, substring) ==
    IF ports = <<>> THEN PyNone
    ELSE FindTiers(query, ports, case_insensitive, substring)

PortNames == {<<"p", "o">>, <<"P", "O">>, <<"x", "p", "o">>, <<"P", "o">>, <<"o">>}
Queries == {<<"p", "o">>, <<"P", "O">>, <<"o">>, <<"O">>, <<"w">>, <<>>}
MaxPorts == 3
PortLists == UNION {[1..n -> PortNames] : n \in 0..MaxPorts}

InitFind ==
    /\ Idle
    /\ \E q \in Queries, l \in PortLists, ci \in BOOLEAN, sub \in BOOLEAN :
          call = [at |-> "find", query |-> q, ports |-> l, case_insensitive |-> ci,
                  substring |-> sub, ret |-> PyNone]

FindReturns ==
    /\ call.at = "find"
    /\ call' = [call EXCEPT
                   !.at = "found",
                   !.ret = find_output_port(call.query, call.ports, call.case_insensitive,
                                            call.substring)]
    /\ UNCHANGED <<pc, file, patch, entries, values, result, last, written, fbSlots>>

NextFind == FindReturns

SpecFind == InitFind /\ [][NextFind]_vars

\* A number brought into 0..127: below 0 it is 0, above 127 it is 127.
SentFor(n) == IF n < 0 THEN 0 ELSE IF n > 127 THEN 127 ELSE n

(***************************************************************************)
(* Properties of map_to_macros                                             *)
(***************************************************************************)
\* The step is a pass of the for loop that reached the call of place; last'
\* describes it.
Placed == pc = "loop" /\ pc' = "loop" /\ last'.act = "place"

\* `values` after val is stored in slot s of it and nothing else is touched.
StoredAt(s, val) ==
    [values EXCEPT ![s] = PyInt(IF val < 0 THEN 0 ELSE IF val > 127 THEN 127 ELSE val)]

AllZeros == [s \in Slots |-> 0]

\* C1: the list returned has exactly 8 elements, each an integer in 0..127,
\* and at every point of the processing each assigned slot holds an integer
\* in 0..127, whatever the entries, their idx and their out ranges.
C1_OutputInRange ==
    /\ \A s \in 0..7 : values[s].t = "none" \/ (values[s].t = "int" /\ values[s].n \in 0..127)
    /\ pc = "done" => /\ DOMAIN result = 0..7
                      /\ \A s \in 0..7 : result[s] \in 0..127

\* C1: a call has returned whose latest entry mapped to a value above 127,
\* which the slot reports as 127.
C1_Witness ==
    /\ pc = "done"
    /\ last.act = "place"
    /\ last.val > 127
    /\ result[last.slot] = 127

\* C2: no exception leaves map_to_macros, whatever the shape of the entries
\* (a source or mapping that is no mapping, numbers that make the range
\* mapper produce a non-finite value).
C2_NeverRaises == pc # "raised"

\* C3: an entry whose idx is an integer in 1..8 stores its value in slot
\* idx-1; otherwise an entry whose idx is an integer in 0..7 stores it in
\* slot idx.
C3_ExplicitPlacement ==
    [][(Placed /\ last'.idx.t = "int")
        => /\ last'.idx.n \in 1..8
              => /\ last'.slot = last'.idx.n - 1
                 /\ values' = StoredAt(last'.idx.n - 1, last'.val)
           /\ last'.idx.n = 0
              => /\ last'.slot = 0
                 /\ values' = StoredAt(0, last'.val)]_vars

\* C3: the entry just placed has idx 8 and its value is in slot 7.
C3_Witness ==
    /\ pc = "loop"
    /\ last.act = "place"
    /\ last.idx = PyInt(8)
    /\ last.slot = 7
    /\ values[7] = PyInt(64)
    /\ values[0].t = "none"

\* An idx that names a slot: an integer of 1..8 or of 0..7.
NamesSlot(idx) == idx.t = "int" /\ idx.n \in 0..8

\* The lowest-numbered slot no earlier entry was assigned to, slot 0 when
\* every slot was.
LowestUnassigned ==
    IF written = Slots THEN 0
    ELSE CHOOSE s \in Slots \ written : \A r \in Slots \ written : s <= r

\* C4: an entry whose idx is absent, is not an integer, or is an integer
\* outside both ranges is stored in the lowest-numbered slot that no earlier
\* entry was assigned to, or in slot 0 when all 8 slots are assigned.
C4_FallbackPlacement ==
    [][(Placed /\ ~NamesSlot(last'.idx))
        => /\ last'.slot = LowestUnassigned
           /\ values' = StoredAt(LowestUnassigned, last'.val)]_vars

\* C5, as stated: in any configuration an entry without a valid idx goes to
\* a slot that no earlier such entry went to, above all of theirs.
C5_FallbacksNeverCollide ==
    [][(Placed /\ last'.fb)
        => /\ last'.slot \notin fbSlots
           /\ \A s \in fbSlots : s < last'.slot]_vars

\* C5, amended: while at least one slot is unassigned, an entry placed by the
\* first-empty rule goes to an unassigned slot that lies above the slot of
\* every earlier such entry, and leaves every other slot as it was.
C5_FallbacksDistinctWhileRoom ==
    [][(Placed /\ last'.fb /\ \E s \in Slots : values[s].t = "none")
        => /\ last'.slot \notin fbSlots
           /\ \A s \in fbSlots : s < last'.slot
           /\ values[last'.slot].t = "none"
           /\ \A s \in Slots \ {last'.slot} : values'[s] = values[s]]_vars

\* C5: two entries without idx have been placed, in slots 0 and 1, the
\* later one in slot 1.
C5_Witness ==
    /\ pc = "loop"
    /\ last.act = "place"
    /\ last.fb
    /\ last.slot = 1
    /\ fbSlots = {0, 1}
    /\ values[0].t = "int" /\ values[1].t = "int"

\* C6: in the list returned, every slot that no entry was placed into is 0.
C6_UnassignedReportedZero ==
    pc = "done" => \A s \in Slots \ written : result[s] = 0

\* C6: a call has returned with some slots assigned (one of them not 0) and
\* some slots never assigned.
C6_Witness ==
    /\ pc = "done"
    /\ written # {}
    /\ written # Slots
    /\ \E s \in written : result[s] # 0
    /\ \E s \in Slots \ written : result[s] = 0

\* The configuration file is missing, its top level is no mapping, or it
\* binds macros to a value that is no list.
LoadFails(f) ==
    \/ ~f.exists
    \/ f.exists /\ f.parses /\ f.top.t # "dict"
    \/ /\ f.exists /\ f.parses /\ f.top.t = "dict"
       /\ "macros" \in DOMAIN f.top.m
       /\ f.top.m["macros"].t # "list"

\* C7: when the configuration file is missing, its top level is not a
\* mapping, or macros is bound to a non-list value, load_macro_map returns
\* {macros: []} without raising, and map_to_macros returns eight zeros.
C7_LoadFailSoft ==
    LoadFails(file)
        => /\ pc # "raised"
           /\ pc # "load" => entries = PyList(<<>>)
           /\ pc = "done" => result = AllZeros

\* C7: a call has returned on a file that binds macros to the integer 5.
C7_Witness ==
    /\ pc = "done"
    /\ file.exists /\ file.parses /\ file.top.t = "dict"
    /\ "macros" \in DOMAIN file.top.m
    /\ file.top.m["macros"] = PyInt(5)
    /\ result = AllZeros

\* C8: a pass of the loop over an element that is not a mapping writes no
\* slot, changes no slot and raises nothing, so the output is the output of
\* the same list without that element.
C8_NonMappingSkipped ==
    [][(pc = "loop" /\ pc' # "done" /\ ~last'.mapping)
        => /\ pc' = "loop"
           /\ last'.act = "skip"
           /\ values' = values
           /\ written' = written]_vars

\* C8: eight entries are placed, a ninth element that is no mapping has just
\* been skipped, and the eight slots are as they were.
C8_Witness ==
    /\ pc = "loop"
    /\ last.act = "skip"
    /\ ~last.mapping
    /\ written = Slots
    /\ \A s \in Slots : values[s] = PyInt(64)

\* The source of an entry takes the expression branch of line 321.
HasExpr(source) ==
    /\ IsInstanceDict(source)
    /\ "constant" \notin DOMAIN source.m
    /\ "expr" \in DOMAIN source.m
    /\ "vars" \in DOMAIN source.m
    /\ IsInstanceDict(source.m["vars"])

DefaultOf(source) == coerce_float(DictGet(source, "default"), Zero)
SourceDict(entry) == OrEmptyDict(DictGetOr(entry, "source", EmptyDict))

\* The variables are bound and the evaluation of the expression raises.
FailsWith(expr, vm) == vm.ok /\ ~SafeEval(expr, vm.m).ok
ExprFailsIn(source, doc) ==
    /\ HasExpr(source)
    /\ FailsWith(source.m["expr"],
                 VarMap(DOMAIN source.m["vars"].m, source.m["vars"], doc,
                        DefaultOf(source)))
ExprFails(entry, doc) == HasGet(entry) /\ ExprFailsIn(SourceDict(entry), doc)

\* What the mapping of an entry makes of the entry's default value.
DefaultMapped(entry) ==
    IF HasGet(entry) /\ IsInstanceDict(SourceDict(entry))
    THEN EntryMapped(FloatOk(DefaultOf(SourceDict(entry))), entry)
    ELSE Raised("AttributeError")

ExprFailsOn(doc) == [k \in 1..NumElements |-> ExprFails(ElementTable[k], doc)] @@ <<>>
ExprFailsTable == [p \in 1..Len(Patches) |-> ExprFailsOn(Patches[p])] @@ <<>>
\* The elements whose expression fails, by patch.
FailingOn(p) == {k \in 1..NumElements : ExprFailsTable[p][k]}
FailingTable == [p \in 1..Len(Patches) |-> FailingOn(p)] @@ <<>>
DefaultMappedTable == [k \in 1..NumElements |-> DefaultMapped(ElementTable[k])] @@ <<>>

\* A pass of the for loop over element k.
PassOver(k) == pc = "loop" /\ last' # last /\ last'.elem = k

\* C14: when the evaluation of an entry's expression fails, the pass over
\* that entry maps the entry's default value and places the result, and it
\* leaves the loop, the list and the patch as they are for the later entries.
C14_ExprFailureUsesDefault ==
    [][\A k \in FailingTable[PatchIndex] :
          PassOver(k)
              => /\ pc' = "loop"
                 /\ last'.act = "place"
                 /\ DefaultMappedTable[k].ok
                 /\ values' = place(values, DefaultMappedTable[k].n, IdxTable[k])
                 /\ entries' = entries
                 /\ patch' = patch]_vars

\* The entry of "a + q" (default 0.75) was placed in slot 2 as 95, and a
\* later entry has been placed in slot 7.
C14_Witness ==
    /\ pc = "loop"
    /\ values[2] = PyInt(95)
    /\ last.act = "place"
    /\ last.slot = 7
    /\ values[7] = PyInt(64)

\* A list [lo, hi] of two numbers.
IsRange(v, lo, hi) ==
    /\ v.t = "list"
    /\ Len(v.items) = 2
    /\ \A i \in 1..2 : v.items[i].t \in {"int", "float"}
    /\ FEq(ToFloat(v.items[1]).x, lo)
    /\ FEq(ToFloat(v.items[2]).x, hi)

\* in = [0, 1], out = [0, 127] (given or left to their defaults), linear
\* curve, no invert, default clamp.
UnitLinear(mapping) ==
    /\ IsInstanceDict(mapping)
    /\ DOMAIN mapping.m \subseteq {"in", "out"}
    /\ "in" \in DOMAIN mapping.m => IsRange(mapping.m["in"], Zero, One)
    /\ "out" \in DOMAIN mapping.m => IsRange(mapping.m["out"], Zero, Fin(CCMax, 1))

\* A well-formed entry with a constant source (a number) and that mapping.
ConstantUnitLinear(entry) ==
    /\ HasGet(entry)
    /\ IsInstanceDict(SourceDict(entry))
    /\ "constant" \in DOMAIN SourceDict(entry).m
    /\ SourceDict(entry).m["constant"].t \in {"int", "float"}
    /\ ~IsNaN(ToFloat(SourceDict(entry).m["constant"]).x)
    /\ UnitLinear(OrEmptyDict(DictGetOr(entry, "mapping", EmptyDict)))

Clamp01(c) == IF FLt(c, Zero) THEN Zero ELSE IF FGt(c, One) THEN One ELSE c
\* round(clamp01(c) * 127)
RoundedCC(c) == RoundHalfEven(FMul(Clamp01(c), Fin(CCMax, 1)))
ExpectedCC(entry) == RoundedCC(ToFloat(SourceDict(entry).m["constant"]).x)

ConstantElements == {k \in 1..NumElements : ConstantUnitLinear(ElementTable[k])}
ExpectedCCTable ==
    [k \in ConstantElements |-> ExpectedCC(ElementTable[k])] @@ <<>>

\* C15: for a well-formed entry with source `constant = c`, in = [0, 1],
\* out = [0, 127], linear curve, no invert and default clamp, the value
\* stored in its slot is round(clamp01(c) * 127).
C15_ConstantLinear ==
    [][\A k \in ConstantElements :
          PassOver(k)
              => /\ pc' = "loop"
                 /\ last'.act = "place"
                 /\ values'[PlaceSlot(values, IdxTable[k])] = PyInt(ExpectedCCTable[k])]_vars

\* The entry of constant 0.25 has been placed in slot 2 as 32.
C15_Witness ==
    /\ pc = "loop"
    /\ last.act = "place"
    /\ last.idx = PyInt(3)
    /\ last.val = 32
    /\ values[2] = PyInt(32)

\* The number a constant stands for, or the default when it stands for none.
ConstantOr(c, default_val) ==
    IF c.t \in {"int", "float", "bool"} THEN ToFloat(c).x
    ELSE IF c.t = "str" /\ ParseFloat(c.s).ok THEN ParseFloat(c.s).x
    ELSE default_val

\* The value of the expression of a source on a patch, the default when
\* the evaluation fails; a `vars` that is no mapping binds no variable.
ExprResult(source, doc) ==
    EvalExpr(source.m["expr"],
             IF IsInstanceDict(source.m["vars"])
             THEN VarMap(DOMAIN source.m["vars"].m, source.m["vars"], doc,
                         DefaultOf(source))
             ELSE [ok |-> TRUE, m |-> EmptyMap],
             DefaultOf(source))

\* The source value by the precedence constant, expression, path, default;
\* the expression is taken when `expr` and `vars` are present and, if
\* vars_mapping is set, only when `vars` is a mapping.
SourceByPrecedence(source, doc, vars_mapping) ==
    IF "constant" \in DOMAIN source.m
    THEN FloatOk(ConstantOr(source.m["constant"], DefaultOf(source)))
    ELSE IF /\ {"expr", "vars"} \subseteq DOMAIN source.m
            /\ vars_mapping => IsInstanceDict(source.m["vars"])
    THEN ExprResult(source, doc)
    ELSE IF "path" \in DOMAIN source.m
    THEN ResolveCoerced(doc, source.m["path"], DefaultOf(source))
    ELSE FloatOk(DefaultOf(source))

\* The elements that are mappings whose source is a mapping.
SourceElements ==
    {k \in 1..NumElements :
        HasGet(ElementTable[k]) /\ IsInstanceDict(SourceDict(ElementTable[k]))}

\* What the pass over each of them is to hand to place, by patch.
PrecedenceOn(doc, vars_mapping) ==
    [k \in SourceElements |->
        EntryMapped(SourceByPrecedence(SourceDict(ElementTable[k]), doc, vars_mapping),
                    ElementTable[k])] @@ <<>>
PrecedenceAnyVars == [p \in 1..Len(Patches) |-> PrecedenceOn(Patches[p], FALSE)] @@ <<>>
PrecedenceTable == [p \in 1..Len(Patches) |-> PrecedenceOn(Patches[p], TRUE)] @@ <<>>

\* A pass of the for loop over one of them.
PassOverSource == pc = "loop" /\ last' # last /\ last'.elem \in SourceElements

\* The pass over element k maps the source value ev and places the result,
\* or raises as ev does.
PassGives(k, ev) ==
    IF ev.ok
    THEN /\ last'.act = "place"
         /\ last'.val = ev.n
         /\ values' = place(values, ev.n, IdxTable[k])
    ELSE pc' = "raised" /\ last'.exc = ev.exc

\* C24 as stated: the source value of an entry is `constant` if that key
\* is present (default_val when it is no number), else the expression
\* result if `expr` and `vars` are both present, else the resolved `path`,
\* else default_val.
C24_SourcePrecedence ==
    [][PassOverSource
          => PassGives(last'.elem, PrecedenceAnyVars[PatchIndex][last'.elem])]_vars

\* C24, amended: the expression is taken when `expr` and `vars` are both
\* present and `vars` is a mapping; with a `vars` that is no mapping the
\* source value is the resolved `path` if there is one, else default_val.
C24_SourcePrecedenceMappingVars ==
    [][PassOverSource
          => PassGives(last'.elem, PrecedenceTable[PatchIndex][last'.elem])]_vars

\* The entry of constant 1 and path filter.cutoff (0.5 in the patch) was
\* placed as 127, and then the entry of the expression 0.5*a + b (0.5 on
\* the patch) and path env2.decay (0.25 in the patch) as 64.
C24_Witness ==
    /\ pc = "loop"
    /\ patch = SimplePatch
    /\ last.act = "place"
    /\ "path" \in DOMAIN SourceDict(ElementTable[last.elem]).m
    /\ "expr" \in DOMAIN SourceDict(ElementTable[last.elem]).m
    /\ IsInstanceDict(SourceDict(ElementTable[last.elem]).m["vars"])
    /\ last.val = 64
    /\ values[2] = PyInt(64)

\* A sequence of two numbers.
TwoNumbers(v) ==
    /\ v.t = "list"
    /\ Len(v.items) = 2
    /\ \A i \in 1..2 : v.items[i].t \in {"int", "float"}

MappingDict(entry) == OrEmptyDict(DictGetOr(entry, "mapping", EmptyDict))
\* The keys among `in` and `out` whose value is no sequence of two numbers.
MalformedKeys(mapping) ==
    {key \in {"in", "out"} \cap DOMAIN mapping.m : ~TwoNumbers(mapping.m[key])}
\* The mapping with each of those keys left to its default range.
WithDefaultRanges(mapping) ==
    PyDict([key \in DOMAIN mapping.m \ MalformedKeys(mapping) |-> mapping.m[key]])

\* The entries that are processed and carry a malformed range.
MalformedElements ==
    {k \in SourceElements :
        /\ IsInstanceDict(MappingDict(ElementTable[k]))
        /\ MalformedKeys(MappingDict(ElementTable[k])) # {}}
DefaultRangesOn(p) ==
    [k \in MalformedElements |->
        MapEntry(SourceTable[p][k], WithDefaultRanges(MappingDict(ElementTable[k])))] @@ <<>>
DefaultRangesTable == [p \in 1..Len(Patches) |-> DefaultRangesOn(p)] @@ <<>>

\* C25: an `in` or `out` that is no sequence of two numbers (of 1 or of 3
\* elements, with an element that is no number, or no sequence at all) is
\* replaced as a whole by its default range, [0, 1] or [0, 127]: the entry
\* is mapped and placed as if the key were absent.
C25_MalformedRangeReplaced ==
    [][(pc = "loop" /\ last' # last /\ last'.elem \in MalformedElements)
          => PassGives(last'.elem, DefaultRangesTable[PatchIndex][last'.elem])]_vars

\* An idx that is an integer of 0..8, and the slot it targets: idx 0 and
\* idx 1 target slot 0, every other idx k targets slot k - 1.
ExplicitIdx(idx) == idx.t = "int" /\ idx.n \in 0..NumSlots
TargetSlot(n) == IF n = 0 THEN 0 ELSE n - 1

\* C28: the pass over an entry with an explicit idx writes the slot the idx
\* targets (slot 0 for idx 0 and for idx 1, slot k - 1 for the others),
\* whether the slot is empty or was filled by an earlier explicit or
\* fallback entry; the value that was there is gone, the other slots keep
\* theirs, and the number of assigned slots grows only when the slot was
\* empty.
C28_LastWriterWins ==
    [][(pc = "loop" /\ last' # last /\ last'.act = "place" /\ ExplicitIdx(last'.idx))
          => /\ last'.slot = TargetSlot(last'.idx.n)
             /\ values'[last'.slot] = PyInt(SentFor(last'.val))
             /\ \A s \in Slots \ {last'.slot} : values'[s] = values[s]
             /\ written' = written \cup {last'.slot}
             /\ Cardinality(written') =
                    Cardinality(written) + (IF values[last'.slot] = PyNone THEN 1 ELSE 0)]_vars

\* Three entries without idx took slots 0, 1 and 2 (64 each); then the
\* entry of idx 3 and value 127 took slot 2 again: four entries processed,
\* three slots assigned.
C28_Witness ==
    /\ pc = "loop"
    /\ last.act = "place"
    /\ last.idx = PyInt(3)
    /\ last.val = 127
    /\ fbSlots = {0, 1, 2}
    /\ written = {0, 1, 2}
    /\ values[2] = PyInt(127)

\* C30: the first empty slot is the first slot never assigned, not the
\* first that holds 0.  While a slot is left, an entry without a valid idx
\* goes to the lowest slot no entry was placed into; a slot an entry stored
\* 0 into (an entry with neither `source` nor `mapping` does so) is passed
\* over like any other assigned slot.
C30_ZeroCountsAsOccupied ==
    [][(Placed /\ last'.fb /\ written # Slots)
          => /\ last'.slot \notin written
             /\ \A s \in 0..(last'.slot - 1) : s \in written
             /\ \A s \in Slots : values[s] = PyInt(0) => last'.slot # s
             /\ values'[last'.slot] = PyInt(SentFor(last'.val))
             /\ \A s \in Slots \ {last'.slot} : values'[s] = values[s]]_vars

\* Slot 2 holds the 0 an entry of idx 3 stored there; entries without a
\* valid idx took slots 0 and 1, and the third of them was placed in slot
\* 3, past the 0.
C30_Witness ==
    /\ pc = "loop"
    /\ last.act = "place"
    /\ last.fb
    /\ last.slot = 3
    /\ values[2] = PyInt(0)
    /\ fbSlots = {0, 1, 3}
    /\ written = {0, 1, 2, 3}

(***************************************************************************)
(* Properties of resolve_path                                              *)
(***************************************************************************)
\* The steps of a path followed one lookup at a time from step j: the value
\* found, or whether the first lookup to fail is a key its mapping lacks.
NotFound(missingKey) == [found |-> FALSE, v |-> PyNone, missingKey |-> missingKey]
RECURSIVE Walk(_, _, _)
WalkKey(cur, p, j) ==
    IF cur.t = "dict" /\ p[j].name \in DOMAIN cur.m THEN Walk(cur.m[p[j].name], p, j + 1)
    ELSE NotFound(cur.t = "dict")
WalkIndex(cur, p, j) ==
    IF cur.t = "list" /\ p[j].i < Len(cur.items) THEN Walk(cur.items[p[j].i + 1], p, j + 1)
    ELSE NotFound(FALSE)
Walk(cur, p, j) ==
    IF j > Len(p) THEN [found |-> TRUE, v |-> cur, missingKey |-> FALSE]
    ELSE IF p[j].k = "key" THEN WalkKey(cur, p, j)
    ELSE IF p[j].k = "brx" THEN NotFound(FALSE)
    ELSE WalkIndex(cur, p, j)

Numeric(v) == v.t \in {"int", "float"}
AsFloat(v) == PyFloat(IF v.t = "int" THEN Fin(v.n, 1) ELSE v.x)

\* resolve_path has returned the number w leads to.
ReturnsFound(w) == call.at = "returned" /\ call.ret = AsFloat(w.v)

RoundTrip(w) ==
    /\ (w.found /\ Numeric(w.v)) => ReturnsFound(w)
    /\ w.missingKey => (call.at = "returned" /\ call.ret = call.default)

\* C9: on a path whose every segment exists and whose terminal value is
\* numeric, resolve_path returns exactly that value as a float; on a path
\* with a missing key it returns the supplied default unchanged.
C9_RoundTrip == call.at # "call" => RoundTrip(Walk(call.root, call.steps, 1))

\* Some segment of the path carries two or more bracketed indices.
SeveralBrackets(p) ==
    \E j \in 2..Len(p) : p[j].k \in {"br", "brx"} /\ p[j - 1].k \in {"br", "brx"}

ExistingNumber(w) == w.found /\ Numeric(w.v)

\* C10: a segment carrying several bracketed indices applies them in order:
\* resolving a.b[0][1] returns what key a, key b, index 0, index 1 lead to.
C10_BracketsInOrder ==
    (/\ call.at # "call"
     /\ SeveralBrackets(call.steps)
     /\ ExistingNumber(Walk(call.root, call.steps, 1)))
        => ReturnsFound(Walk(call.root, call.steps, 1))

\* C11: resolve_path never raises, and it returns `default` whenever a lookup
\* step fails structurally: a missing key, an index out of range, a key or an
\* index applied to a node of the wrong container kind, or a bracket index
\* that is no integer.
C11_StructuralFailureGivesDefault ==
    call.at # "call" =>
        /\ call.at = "returned"
        /\ ~Walk(call.root, call.steps, 1).found => call.ret = call.default

\* A terminal value that is neither a number nor text that reads as one.
ParsesAsNumber(v) == v.t = "str" /\ ParseFloat(v.s).ok
NotANumber(v) ==
    \/ v.t \in {"bool", "none", "dict", "list"}
    \/ v.t = "str" /\ ~ParsesAsNumber(v)

\* C12: a terminal value is returned as a number only when it is numeric or
\* a string that parses as a number; for a boolean, null, mapping, sequence
\* or non-numeric string the result is `default`.
C12_TerminalCoercion ==
    (/\ call.at # "call"
     /\ Walk(call.root, call.steps, 1).found
     /\ NotANumber(Walk(call.root, call.steps, 1).v))
        => (call.at = "returned" /\ call.ret = call.default)

(***************************************************************************)
(* Properties of _SafeEval                                                 *)
(***************************************************************************)
\* The grammar: numeric literals, variables that exist, the binary operators
\* + - * / % **, unary + and -, and calls of min, max, abs, sqrt with
\* positional arguments only.
RECURSIVE InGrammar(_, _)
InGrammar(tree, names) ==
    CASE tree.op = "Constant" -> tree.v.t \in {"int", "hugeint", "float"}
      [] tree.op = "Name" -> tree.id \in names
      [] tree.op = "BinOp" ->
           /\ tree.o \in {"Add", "Sub", "Mult", "Div", "Mod", "Pow"}
           /\ InGrammar(tree.l, names)
           /\ InGrammar(tree.r, names)
      [] tree.op = "UnaryOp" -> tree.o \in {"UAdd", "USub"} /\ InGrammar(tree.e, names)
      [] tree.op = "Call" ->
           /\ tree.f \in {"min", "max", "abs", "sqrt"}
           /\ ~tree.kw
           /\ \A i \in 1..Len(tree.args) : InGrammar(tree.args[i], names)
      [] OTHER -> FALSE

\* C13: the evaluator returns a number only for expressions inside the
\* grammar; it fails on every expression that contains a string or boolean
\* literal, a comparison, attribute access, a container literal, a keyword
\* argument, a call of a name other than min, max, abs, sqrt, or a variable
\* absent from `variables`.
C13_OnlyGrammarEvaluates ==
    call.at = "evaluated" => InGrammar(call.tree, DOMAIN call.variables)

(***************************************************************************)
(* Properties of _map_value                                                *)
(***************************************************************************)
\* The call of _map_value is over and its input range was degenerate.
DegenerateDone == call.at \in {"mapped", "failed"} /\ FEq(call.in_min, call.in_max)

\* C16 as stated: when in_min equals in_max the range mapper returns out_min
\* rounded to an integer, for every x, curve, invert and clamp (on out bounds
\* that are finite, so that there is an out_min to round).
C16_DegenerateGivesOutMin ==
    (DegenerateDone /\ IsFin(call.out_min) /\ IsFin(call.out_max))
        => (call.at = "mapped" /\ call.ret = RoundHalfEven(call.out_min))

\* C16 amended: when in_min equals in_max, for every x, curve and clamp the
\* range mapper returns out_min rounded when invert is false and out_max
\* rounded when invert is true; with an out bound that is not finite it
\* raises instead.
C16_DegenerateRange ==
    DegenerateDone
        => IF IsFin(call.out_min) /\ IsFin(call.out_max)
           THEN /\ call.at = "mapped"
                /\ call.ret = RoundHalfEven(IF call.invert THEN call.out_max
                                            ELSE call.out_min)
           ELSE call.at = "failed"

\* x = 2 on in = [1, 1], out = [10, 20] with invert: 20 is returned.
C16_Witness ==
    /\ call.at = "mapped"
    /\ call.x = Fin(2, 1)
    /\ call.in_min = One
    /\ call.in_max = One
    /\ call.out_min = Fin(10, 1)
    /\ call.invert
    /\ call.ret = 20

\* The call of _map_value is over; its curve is linear; x lies outside
\* [in_min, in_max].
MapDone == call.at \in {"mapped", "failed"}
LinearCurve == call.curve \in {PyNone, PyStr(<<"l", "i", "n", "e", "a", "r">>)}
Outside(x, lo, hi) == FLt(x, lo) \/ FGt(x, hi)
XOutside == Outside(call.x, call.in_min, call.in_max)

\* The ends of the output range, and the returned integer against them.
OutLo == IF FLt(call.out_max, call.out_min) THEN call.out_max ELSE call.out_min
OutHi == IF FLt(call.out_max, call.out_min) THEN call.out_min ELSE call.out_max
RetOutside == Outside(Fin(call.ret, 1), OutLo, OutHi)

\* The normalized value of x as it is, and the values in [0, 1] it can be
\* forced to: the nearer end of [0, 1], or an end of it when t is no number.
NormalT == FDiv(FSub(call.x, call.in_min), FSub(call.in_max, call.in_min))
DegenerateOrT == IF FEq(call.in_min, call.in_max) THEN Zero ELSE NormalT
ForcedT == IF IsNaN(DegenerateOrT) THEN {Zero, One} ELSE {Clamp01(DegenerateOrT)}

\* The curve, invert and output steps applied to a normalized value u.
AfterClamp(u) ==
    ScaleOut(InvertT(ApplyCurve(u, parse_curve(call.curve)), call.invert),
             call.out_min, call.out_max)
Outcome == IF call.at = "mapped" THEN IntOk(call.ret) ELSE Raised(call.exc)

\* With clamp = true the curve and invert steps work on a value in [0, 1].
ClampedBeforeCurve == (MapDone /\ call.clamp) => \E u \in ForcedT : Outcome = AfterClamp(u)

\* C26 as stated: with clamp = false, a linear curve and x outside
\* [in_min, in_max], the integer returned lies outside [out_min, out_max];
\* with clamp = true the normalized value is forced into [0, 1] before the
\* curve and invert steps.
C26_ClampOnlyInput ==
    /\ (call.at = "mapped" /\ ~call.clamp /\ LinearCurve /\ XOutside) => RetOutside
    /\ ClampedBeforeCurve

\* The output the unclamped linear mapping extrapolates to.
LinearY ==
    FAdd(call.out_min,
         FMul(IF call.invert THEN FSub(One, NormalT) ELSE NormalT,
              FSub(call.out_max, call.out_min)))
FarOutside(y) == Outside(y, FSub(OutLo, Half), FAdd(OutHi, Half))

\* C26, amended: with clamp = false, a linear curve, in_min # in_max and a
\* finite x outside [in_min, in_max], the integer returned is the rounded
\* extrapolation y = out_min + t * (out_max - out_min) of the unclamped t;
\* y lies outside [out_min, out_max] when out_min # out_max, and so does the
\* integer when y is more than 1/2 away from the range (nearer than that,
\* rounding can bring it back to the end of the range).  With clamp = true
\* the normalized value is forced into [0, 1] before the curve and invert
\* steps.
C26_Extrapolates ==
    /\ (/\ MapDone
        /\ ~call.clamp
        /\ LinearCurve
        /\ XOutside
        /\ IsFin(call.x)
        /\ ~FEq(call.in_min, call.in_max)
        /\ IsFin(call.out_min)
        /\ IsFin(call.out_max))
           => /\ call.at = "mapped"
              /\ call.ret = RoundHalfEven(LinearY)
              /\ ~FEq(call.out_min, call.out_max) => Outside(LinearY, OutLo, OutHi)
              /\ FarOutside(LinearY) => RetOutside
    /\ ClampedBeforeCurve

\* x = 2 on in = [0, 1], out = [0, 127], linear, without clamp: 254.
C26_Witness ==
    /\ call.at = "mapped"
    /\ ~call.clamp
    /\ ~call.invert
    /\ call.curve = PyNone
    /\ call.x = Fin(2, 1)
    /\ call.in_min = Zero
    /\ call.in_max = One
    /\ call.out_min = Zero
    /\ call.out_max = Fin(CCMax, 1)
    /\ call.ret = 254

\* C29: with clamp = true, for every x, every curve and either invert
\* setting, the integer returned lies between round(min(out_min, out_max))
\* and round(max(out_min, out_max)) inclusive; with finite out bounds an
\* integer is returned.
C29_ClampedOutputInRange ==
    (MapDone /\ call.clamp)
        => /\ (IsFin(call.out_min) /\ IsFin(call.out_max)) => call.at = "mapped"
           /\ call.at = "mapped"
                 => /\ RoundHalfEven(OutLo) <= call.ret
                    /\ call.ret <= RoundHalfEven(OutHi)

\* x = 2 on in = [0, 1], out = [10, 20], curve pow:0.5, with invert and
\* clamp: t is forced to 1, inverted to 0, and 10 is returned.
C29_Witness ==
    /\ call.at = "mapped"
    /\ call.clamp
    /\ call.invert
    /\ call.curve = PyStr(<<"p", "o", "w", ":", "0", ".", "5">>)
    /\ call.x = Fin(2, 1)
    /\ call.in_min = Zero
    /\ call.in_max = One
    /\ call.out_min = Fin(10, 1)
    /\ call.ret = 10

(***************************************************************************)
(* Properties of two calls of map_to_macros                                *)
(***************************************************************************)
\* What a call returns or raises when it runs alone on `list` and the p-th
\* patch, from entry j on with the slot array vals.
RECURSIVE AloneFrom(_, _, _, _)
AloneNext(r, list, j, p) ==
    IF r.pc = "raised" THEN [pc |-> "raised", result |-> <<>>, exc |-> r.exc]
    ELSE AloneFrom(r.vals, list, j + 1, p)
AloneFrom(vals, list, j, p) ==
    IF j > Len(list) THEN [pc |-> "done", result |-> Filled(vals), exc |-> ""]
    ELSE AloneNext(PassOf(vals, list[j], p), list, j, p)
Alone(list, p) == AloneFrom([s \in Slots |-> PyNone], list, 1, p)

OverA == pc \in {"done", "raised"}
OverB == call.pcB \in {"done", "raised"}
OutcomeA == [pc |-> pc, result |-> result, exc |-> call.excA]
OutcomeB == [pc |-> call.pcB, result |-> call.resultB, exc |-> call.excB]

\* C17: two calls with the same patch document and the same configuration
\* yield the same output, whether or not the one was over when the other
\* began.
C17_SameInputsSameOutput ==
    (OverA /\ OverB /\ call.listA = call.listB /\ call.patchB = 1)
        => OutcomeA = OutcomeB

\* B began after A had returned, on the same two entries without idx and
\* the same patch, and returned the same [64, 64, 0, ...].
C17_Witness ==
    /\ call.seq
    /\ pc = "done"
    /\ call.pcB = "done"
    /\ call.listA = call.listB
    /\ call.patchB = 1
    /\ Len(call.listA) = 2
    /\ result[0] = 64
    /\ result[1] = 64
    /\ call.resultB = result

\* C18: the slot array of one call is never written by a step of the other,
\* and each call returns what it returns when it runs alone.
C18_InterleavedCallsIndependent ==
    /\ [](OverA => OutcomeA = Alone(call.listA, 1))
    /\ [](OverB => OutcomeB = Alone(call.listB, call.patchB))
    /\ [][(values' # values => call'.valuesB = call.valuesB)
           /\ (LoadB \/ PassB \/ ReturnB => values' = values)]_vars

\* Both calls are under way, each has placed a value in its own array, and
\* the arrays differ.
C18_Witness ==
    /\ pc = "loop"
    /\ call.pcB = "loop"
    /\ call.posA = 2
    /\ call.posB = 2
    /\ values[2] = PyInt(64)
    /\ call.valuesB[2] = PyInt(0)

(***************************************************************************)
(* Properties of send_macros and load_cc_assignments                       *)
(***************************************************************************)
\* The control number and the value the i-th message is to carry (i from 1).
WantedControl(i) ==
    IF call.cc_map.t = "none" THEN load_cc_assignments(call.file)[i - 1]
    ELSE IF Len(call.cc_map.items) >= 8 THEN call.cc_map.items[i].n
    ELSE i
WantedRaw(i) == IF i <= Len(call.vals.items) THEN ToInt(call.vals.items[i]).n ELSE 0
WantedValue(i) ==
    IF WantedRaw(i) < 0 THEN 0 ELSE IF WantedRaw(i) > 127 THEN 127 ELSE WantedRaw(i)

\* C19: send_macros sends exactly 8 Control Change messages on one opened
\* port, in slot order, the i-th with control number cc_map[i] and the i-th
\* value clamped to 0..127; missing values are sent as 0, values past the
\* 8th are never sent, and a cc_map of fewer than 8 entries is replaced by
\* CC 1..8.
C19_EightMessagesInOrder ==
    call.at \in {"batch", "sent"} =>
        /\ call.opens = 1
        /\ Len(call.sent) <= 8
        /\ \A i \in 1..Len(call.sent) :
              call.sent[i] = [control |-> WantedControl(i), value |-> WantedValue(i)]
        /\ call.at = "batch" => call.port = "open"
        /\ call.at = "sent" => (Len(call.sent) = 8 /\ call.port = "closed")

\* Nine values and a cc_map of seven entries: the eight messages are sent
\* on CC 1..8, the first with 127 for the value 200, and the ninth value is
\* not sent.
C19_Witness ==
    /\ call.at = "sent"
    /\ Len(call.vals.items) = 9
    /\ call.cc_map.t = "list"
    /\ Len(call.cc_map.items) = 7
    /\ Len(call.sent) = 8
    /\ call.sent[1] = [control |-> 1, value |-> 127]
    /\ call.sent[8].control = 8

\* The file holds a macros list and no `cc` list, and every element of the
\* list is an entry of idx 0, 3 or 8 with an integer cc.
ClaimedEntry(e) ==
    /\ e.t = "dict"
    /\ DictGet(e, "idx") \in {PyInt(0), PyInt(3), PyInt(8)}
    /\ DictGet(e, "cc").t = "int"
PerMacroFile(f) ==
    /\ f.exists
    /\ f.parses
    /\ f.top.t = "dict"
    /\ "cc" \notin DOMAIN f.top.m
    /\ "macros" \in DOMAIN f.top.m
    /\ f.top.m["macros"].t = "list"
    /\ \A i \in 1..Len(f.top.m["macros"].items) : ClaimedEntry(f.top.m["macros"].items[i])

\* The last entry of the list with the given idx sets position s.
SetsPosition(items, i, idx, s) ==
    /\ DictGet(items[i], "idx") = PyInt(idx)
    /\ \A j \in (i + 1)..Len(items) : DictGet(items[j], "idx") # PyInt(idx)
    /\ call.ret[s] = DictGet(items[i], "cc").n

\* C20: with a macros list and no top-level cc list, an entry of idx 0 puts
\* its cc at position 0, an entry of idx 3 puts its cc at position 3, an
\* entry of idx 8 is ignored, and every other position holds its default
\* i + 1.
C20_PerMacroAssignment ==
    (call.at = "cc_done" /\ PerMacroFile(call.file)) =>
        \A s \in Slots :
            IF s \in {0, 3} /\ \E i \in 1..Len(call.file.top.m["macros"].items) :
                                 DictGet(call.file.top.m["macros"].items[i], "idx") = PyInt(s)
            THEN \E i \in 1..Len(call.file.top.m["macros"].items) :
                     SetsPosition(call.file.top.m["macros"].items, i, s, s)
            ELSE call.ret[s] = s + 1

\* The parts of the file load_cc_assignments looks at.
CCTop(f) == IF f.exists /\ f.parses /\ f.top.t = "dict" THEN f.top.m ELSE EmptyMap
HasCCList(f) ==
    /\ "cc" \in DOMAIN CCTop(f)
    /\ CCTop(f)["cc"].t = "list"
    /\ Len(CCTop(f)["cc"].items) >= 8
HasMacrosList(f) ==
    /\ "macros" \in DOMAIN CCTop(f)
    /\ CCTop(f)["macros"].t = "list"
WithoutCC(f) ==
    [f EXCEPT !.top = PyDict([k \in DOMAIN CCTop(f) \ {"cc"} |-> CCTop(f)[k]])]

\* Python's == between a list item and the integer n.
EqualsInt(item, n) ==
    \/ item.t = "int" /\ item.n = n
    \/ item.t = "bool" /\ n = (IF item.b THEN 1 ELSE 0)
    \/ item.t = "float" /\ item.x = Fin(n, 1)

\* Position s holds its default or the cc of an entry of the macros list.
FromSomeEntry(f, s) ==
    \/ call.ret[s] = s + 1
    \/ \E i \in 1..Len(CCTop(f)["macros"].items) :
          /\ CCTop(f)["macros"].items[i].t = "dict"
          /\ DictGet(CCTop(f)["macros"].items[i], "cc") = PyInt(call.ret[s])

EightNumbers == DOMAIN call.ret = Slots /\ \A s \in Slots : call.ret[s] \in Int
PerMacroOrDefault(f) ==
    IF HasMacrosList(f)
    THEN /\ call.ret = load_cc_assignments(WithoutCC(f))
         /\ \A s \in Slots : FromSomeEntry(f, s)
    ELSE call.ret = CCDefault

\* C21 as stated: load_cc_assignments returns 8 numbers: the first 8 items
\* of a top-level `cc` list of at least 8 items, whatever the macros list
\* holds; otherwise the per-macro assignments; and 1..8 when the file is
\* missing, unreadable or holds neither form.
C21_EightNumbersAlways ==
    call.at = "cc_done" =>
        /\ EightNumbers
        /\ IF HasCCList(call.file)
           THEN \A s \in Slots : EqualsInt(CCTop(call.file)["cc"].items[s + 1], call.ret[s])
           ELSE PerMacroOrDefault(call.file)

\* C21, amended: the first 8 items of the `cc` list are returned as int()
\* converts them (a string of digits is read, a float is cut towards zero),
\* and when one of them does not convert the result is 1..8, whatever the
\* macros list holds.
C21_EightNumbersConverted ==
    call.at = "cc_done" =>
        /\ EightNumbers
        /\ IF HasCCList(call.file)
           THEN IF \A s \in Slots : ToInt(CCTop(call.file)["cc"].items[s + 1]).ok
                THEN \A s \in Slots :
                         call.ret[s] = ToInt(CCTop(call.file)["cc"].items[s + 1]).n
                ELSE call.ret = CCDefault
           ELSE PerMacroOrDefault(call.file)

\* A `cc` list of 8 numbers beside a macros entry of idx 0 and cc 10: the
\* list wins.
C21_Witness ==
    /\ call.at = "cc_done"
    /\ HasCCList(call.file)
    /\ HasMacrosList(call.file)
    /\ CCTop(call.file)["macros"].items = <<CCEntry(PyInt(0), PyInt(10))>>
    /\ call.ret = [s \in Slots |-> 21 + s]

\* C22: every message send_cc and send_cc_batch send carries a value in
\* 0..127 (0 for a value below 0, 127 for a value above 127); send_cc_batch
\* sends one message per pair, in the order of the pairs, all on the
\* requested channel.
C22_ValuesClampedOnePerPair ==
    call.at \in {"batch_loop", "batch_done", "cc_open", "cc_sent"} =>
        /\ Len(call.sent) = call.next - 1
        /\ Len(call.sent) <= Len(call.pairs)
        /\ \A i \in 1..Len(call.sent) :
              /\ call.sent[i].value \in 0..127
              /\ call.sent[i].value = SentFor(ToInt(call.pairs[i].value).n)
              /\ PyInt(call.sent[i].control) = call.pairs[i].cc
              /\ PyInt(call.sent[i].channel) = call.channel
        /\ call.at \in {"batch_done", "cc_sent"} => Len(call.sent) = Len(call.pairs)

\* A batch of three pairs on channel 9 is over: 200 went out as 127, -5 as
\* 0 and 64 as it is.
C22_Witness ==
    /\ call.at = "batch_done"
    /\ call.pairs = <<CCPair(PyInt(7), PyInt(200)), CCPair(PyInt(10), PyInt(-5)),
                      CCPair(PyInt(7), PyInt(64))>>
    /\ call.sent = <<[control |-> 7, value |-> 127, channel |-> 9],
                     [control |-> 10, value |-> 0, channel |-> 9],
                     [control |-> 7, value |-> 64, channel |-> 9]>>

(***************************************************************************)
(* Properties of find_output_port                                          *)
(***************************************************************************)
\* The positions of the ports that match the query in each of the three
\* ways; the last two are empty when the caller switched them off.
ExactAt == {i \in 1..Len(call.ports) : call.ports[i] = call.query}
InsensitiveAt ==
    {i \in 1..Len(call.ports) :
        call.case_insensitive /\ Lower(call.ports[i]) = Lower(call.query)}
SubstringAt ==
    {i \in 1..Len(call.ports) :
        /\ call.substring
        /\ IF call.case_insensitive
           THEN Contains(Lower(call.ports[i]), Lower(call.query))
           ELSE Contains(call.ports[i], call.query)}
FirstOf(S) == CHOOSE i \in S : \A j \in S : i <= j
BestKind ==
    IF ExactAt # {} THEN ExactAt
    ELSE IF InsensitiveAt # {} THEN InsensitiveAt
    ELSE SubstringAt

\* C23: find_output_port returns the first port, in list order, of the
\* best kind of match there is (exact, then case-insensitive exact, then
\* substring), and None when no port matches or there are no ports.
C23_PortPreference ==
    call.at = "found" =>
        IF BestKind = {} THEN call.ret = PyNone
        ELSE call.ret = PyStr(call.ports[FirstOf(BestKind)])

\* The query "po" against the ports "xpo", "PO", "po": the exact match is
\* third in the list, behind a substring match and a case-insensitive one,
\* and it is the one returned.
C23_Witness ==
    /\ call.at = "found"
    /\ call.case_insensitive
    /\ call.substring
    /\ call.query = <<"p", "o">>
    /\ call.ports = <<<<"x", "p", "o">>, <<"P", "O">>, <<"p", "o">>>>
    /\ call.ret = PyStr(<<"p", "o">>)

(***************************************************************************)
(* Properties of map_to_macros and resolve_path together                   *)
(***************************************************************************)
\* C27: map_to_macros and resolve_path only read the patch document: no
\* step of a call, whatever the configuration and the path, and whether a
\* lookup or an expression fails or not, changes the document.
C27_PatchUnchanged ==
    [][/\ patch' = patch
       /\ call.at = "call" => call'.root = call.root]_vars

\* The pass over an entry whose expression fails is over, on the patch of
\* the tests.
C27_Witness ==
    /\ pc = "loop"
    /\ patch = SimplePatch
    /\ last.act = "place"
    /\ last.elem \in FailingTable[1]
====
